---- MODULE Spec2Model ----
(***************************************************************************)
(* Orchestration core of generic-corp-x-craft-agents: the engine's         *)
(* spawn/complete protocol over the agent and task stores, the finish_task *)
(* tool, and the delegation flow that writes result artifacts into the     *)
(* parent assignee's results directory.                                    *)
(*                                                                         *)
(* Also: the org tree, the event bus, the entity stores over files, the    *)
(* message, board and context tools, and spawnAgent, completeAgent and     *)
(* save suspended at their awaits.                                         *)
(*                                                                         *)
(* Unless a section says otherwise, an action is one call that runs to     *)
(* completion.  Records carry the                                          *)
(* fields the operations read or write; presentation fields (displayName,  *)
(* role, prompt, ...) and createdAt/updatedAt are carried through the      *)
(* operations untouched by any decision and are left out.                  *)
(***************************************************************************)
EXTENDS Integers, Sequences, FiniteSets, TLC

\* ------------------------------------------------------------------ bounds
NumAgents == 2
NumTasks == 2
MaxClock == 2
MaxLimit == 2
MaxLen == 1
MaxCalls == 3
MaxDeliveries == 2
NumOrgAgents == 4
MaxOrgCalls == 5
NumHandlers == 2
NumPayloads == 2
MaxBusCalls == 5
MaxThrowCalls == 4
NumRecords == 2
MaxTime == 2
MaxStorageCalls == 3
MaxToolCalls == 3
MaxFlightCalls == 2
MaxSaves == 2

\* ------------------------------------------------------- values and types
\* JavaScript null for ids, timestamps and numbers (ids and times are >= 1).
NULL == 0
\* An optional argument that was not supplied.
UNDEFINED == -1

DEFAULT_CONCURRENCY_LIMIT == 3

AgentNames == 1..NumAgents

\* The limit the engine runs with: the default, or the value given to
\* setConcurrencyLimit when the engine is set up.
ConfiguredLimits == (1..MaxLimit) \cup {DEFAULT_CONCURRENCY_LIMIT}
TaskIds == 1..NumTasks

AGENT_STATUSES == {"idle", "running", "error", "offline"}
TASK_STATUSES == {"pending", "running", "review", "completed", "failed", "blocked"}
TerminalStatuses == {"completed", "failed", "blocked"}

\* Text is a sequence of characters.  A null text is the one-element
\* sequence NullText, whose element is not a character.
Chars == {" ", "d"}
NullText == <<"null">>
Placeholder == <<"(no result provided)">>
Strings(n) == UNION {[1..k -> Chars] : k \in 0..n}

\* The result strings the engine-level specifications pass to completeAgent
\* and finish_task.
ResultArgs == {NullText, <<"d">>}
FinishResultArgs == {<<>>, <<"d">>}
\* The result strings of the delegation specification: null and every text
\* of at most MaxLen characters.
DeliveryResultArgs == {NullText} \cup Strings(MaxLen)
TelemetryArgs == {UNDEFINED, 1}
\* The optional role argument of update_agent (it stands for the four optional
\* text fields, which the tool treats alike).
RoleArgs == {UNDEFINED, 1, 2}

\* JavaScript truthiness of a nullable id (`a && b` in an if).
Truthy(v) == v # NULL

\* String.prototype.trim on a text.
RECURSIVE TrimLeft(_)
TrimLeft(s) == IF s # <<>> /\ Head(s) = " " THEN TrimLeft(Tail(s)) ELSE s
RECURSIVE TrimRight(_)
TrimRight(s) ==
    IF s # <<>> /\ s[Len(s)] = " " THEN TrimRight(SubSeq(s, 1, Len(s) - 1)) ELSE s
Trim(s) == TrimRight(TrimLeft(s))

VARIABLES
    agentStore,        \* agents/<name>/config.json : name -> AgentConfig
    taskStore,         \* tasks/<id>.json           : id -> TaskState
    mailbox,           \* agents/<name>/results/    : name -> (file name -> body)
    runningAgents,     \* engine.runningAgents      : name -> taskId
    concurrencyLimit,  \* engine.concurrencyLimit
    clock,             \* the millisecond the wall clock reads
    emitted,           \* events emitted by the last call, in order
    lastCall,          \* the last call: operation, arguments, outcome
    calls,             \* number of calls made so far
    orgTree,           \* org.json                  : the org tree
    handlers,          \* eventBus.handlers         : event -> handlers, in insertion order
    busLog,            \* the calls made on the event bus, in order
    invoked,           \* the handler invocations of the last emit, in order
    disk,              \* the files and directories under basePath, per store
    saving,            \* the save suspended at an await, if any
    storageLog,        \* the saves, deletes and crashes so far, in order
    storageCall,       \* the last storage call, with what it returned
    inflight           \* the engine calls suspended at an await : call -> position

vars == <<agentStore, taskStore, mailbox, runningAgents, concurrencyLimit,
          clock, emitted, lastCall, calls, orgTree, handlers, busLog, invoked,
          disk, saving, storageLog, storageCall, inflight>>

orgVars == <<orgTree>>
busVars == <<handlers, busLog, invoked>>
engineVars == <<agentStore, taskStore, mailbox, runningAgents, concurrencyLimit, clock>>
storageVars == <<disk, saving, storageLog, storageCall>>
flightVars == <<inflight>>

\* OrgStorage.get when org.json does not exist.
EmptyTree == [roots |-> <<>>]

\* ------------------------------------------------------------------ stores
EmptyStore == [k \in {} |-> NULL]

\* writeFile(tmp) then rename(tmp, file): the file holds the new content.
Put(store, key, rec) ==
    [k \in DOMAIN store \cup {key} |-> IF k = key THEN rec ELSE store[k]]

AgentsSave(store, agent) == Put(store, agent.name, agent)
TasksSave(store, task) == Put(store, task.id, task)

Has(store, key) == key \in DOMAIN store

\* Map.delete
MapDelete(map, key) == [k \in DOMAIN map \ {key} |-> map[k]]

\* The five entity stores under basePath.
StoreNames == {"agents", "tasks", "messages", "board", "org"}

\* A workspace in which nothing was ever saved: no store has its directory.
\* root is the store's own directory (agents/, tasks/, messages/, board/,
\* and basePath itself for org.json), dirs its subdirectories, and files
\* maps <<directory, name, tmp>> to the file's content, tmp being TRUE for
\* the sibling file "<file>.tmp".
EmptyDisk == [s \in StoreNames |-> [root |-> FALSE, dirs |-> {}, files |-> EmptyStore]]

\* A storage call and its outcome.  container tells whether the directory a
\* list read existed.
StorageCall(op, store, key, arg, container, result) == [op |-> op, store |-> store, key |-> key, arg |-> arg, container |-> container, result |-> result]

\* No engine call is suspended.
FlightIdle == inflight = EmptyStore

\* No storage call has been made and none is in progress.
StorageIdle == disk = EmptyDisk /\ saving = <<>> /\ storageLog = <<>> /\ storageCall = StorageCall("none", "none", NULL, NULL, FALSE, <<>>)

\* A new agent as create_agent builds it.
NewAgent(name) == [name |-> name, role |-> 1, status |-> "idle", currentTaskId |-> NULL]

\* A new task as createTask builds it.
NewTask(id, assigneeName, delegatorName, parentTaskId) ==
    [id |-> id, parentTaskId |-> parentTaskId, assigneeId |-> assigneeName,
     delegatorId |-> delegatorName, status |-> "pending", result |-> NullText,
     costUsd |-> NULL, durationMs |-> NULL, numTurns |-> NULL,
     startedAt |-> NULL, completedAt |-> NULL]

\* ------------------------------------------------------------------ events
AgentStatusChanged(agentName, status) ==
    [type |-> "agent_status_changed", id |-> agentName, status |-> status]
TaskStatusChanged(taskId, status) ==
    [type |-> "task_status_changed", id |-> taskId, status |-> status]
TaskCreated(taskId) == [type |-> "task_created", id |-> taskId, status |-> "pending"]
AgentCreated(agentName) == [type |-> "agent_created", id |-> agentName, status |-> "idle"]
AgentUpdated(agentName) == [type |-> "agent_updated", id |-> agentName, status |-> "none"]

\* The record of a call.
Call(op, agentName, taskId, status, result, costUsd, durationMs, numTurns, outcome, value) ==
    [op |-> op, agentName |-> agentName, taskId |-> taskId, status |-> status,
     result |-> result, costUsd |-> costUsd, durationMs |-> durationMs,
     numTurns |-> numTurns, outcome |-> outcome, value |-> value]

\* --------------------------------------------------------- delegation flow
\* `${now.toISOString().replace(/[:.]/g, "-")}-${childTaskId}.md`: the name is
\* fixed by the millisecond read from the clock and the child task id.
FileName(now, childTaskId) == <<now, childTaskId>>

\* `${childResult?.trim() ?? "(no result provided)"}`
ResultSection(childResult) ==
    IF childResult = NullText THEN Placeholder ELSE Trim(childResult)

ArtifactBody(childTaskId, childStatus, now, childResult) ==
    [taskId |-> childTaskId, status |-> childStatus, completed |-> now,
     result |-> ResultSection(childResult)]

EmptyDir == [f \in {} |-> NULL]

\* writeFile(tmpPath) then rename(tmpPath, filePath) in the results directory:
\* a file of that name is created, or replaced when it exists.
WriteFile(dir, fileName, body) ==
    [f \in DOMAIN dir \cup {fileName} |-> IF f = fileName THEN body ELSE dir[f]]

HandleChildCompletion(mb, childTaskId, childResult, childStatus, parentTaskId, parentAgentName, now) ==
    [mb EXCEPT ![parentAgentName] =
        WriteFile(@, FileName(now, childTaskId),
                  ArtifactBody(childTaskId, childStatus, now, childResult))]

\* ------------------------------------------------------------------ engine
\* Mutant: the gate compares with > and lets one agent too many through.
ConcurrencyLimitReached_OffByOne(size, limit) == size > limit

ConcurrencyLimitReached(size, limit) == size >= limit

\* Mutant: the agent is marked running without its task.
SpawnedAgent_NoTask(agentConfig, taskId) == [agentConfig EXCEPT !.status = "running"]

SpawnedAgent(agentConfig, taskId) ==
    [agentConfig EXCEPT !.status = "running", !.currentTaskId = taskId]

\* Mutant: the spawned task is put into review.
SpawnedTask_InReview(task, now) == [task EXCEPT !.status = "review", !.startedAt = now]

SpawnedTask(task, now) ==
    [task EXCEPT !.status = "running", !.startedAt = now]

RegistrySet(reg, agentName, taskId) == Put(reg, agentName, taskId)

\* Mutant: the registry entry is kept.
RegistryDelete_Keeps(reg, agentName) == reg

RegistryDelete(reg, agentName) == [k \in DOMAIN reg \ {agentName} |-> reg[k]]

\* Mutant: the telemetry fields are assigned whether or not they were supplied.
CompletedTask_AlwaysAssign(task, status, result, costUsd, durationMs, numTurns, now) ==
    [task EXCEPT !.status = status,
                 !.result = result,
                 !.completedAt = now,
                 !.costUsd = IF costUsd # UNDEFINED THEN costUsd ELSE NULL,
                 !.durationMs = IF durationMs # UNDEFINED THEN durationMs ELSE NULL,
                 !.numTurns = IF numTurns # UNDEFINED THEN numTurns ELSE NULL]

CompletedTask(task, status, result, costUsd, durationMs, numTurns, now) ==
    [task EXCEPT !.status = status,
                 !.result = result,
                 !.completedAt = now,
                 !.costUsd = IF costUsd # UNDEFINED THEN costUsd ELSE @,
                 !.durationMs = IF durationMs # UNDEFINED THEN durationMs ELSE @,
                 !.numTurns = IF numTurns # UNDEFINED THEN numTurns ELSE @]

\* Mutant: the agent is set idle but keeps its task.
IdleAgent_KeepsTask(agent) == [agent EXCEPT !.status = "idle"]

IdleAgent(agent) == [agent EXCEPT !.status = "idle", !.currentTaskId = NULL]

\* Mutant: the delivery is decided by the parent task id alone.
ShouldDeliver_ParentOnly(task) == Truthy(task.parentTaskId)

\* if (task.parentTaskId && task.delegatorId)
ShouldDeliver(task) == Truthy(task.parentTaskId) /\ Truthy(task.delegatorId)

\* The delivery block of completeAgent: the parent is looked up after the
\* child was saved, and the artifact goes to the parent task's assignee.
DeliverResult(tasks, mb, task, taskId, result, status, now) ==
    IF ShouldDeliver(task) /\ Has(tasks, task.parentTaskId)
    THEN HandleChildCompletion(mb, taskId, result, status, task.parentTaskId,
                               tasks[task.parentTaskId].assigneeId, now)
    ELSE mb

\* completeAgent, "Update task": skipped when the task is not found.
CompleteAgentTasks(tasks, taskId, status, result, costUsd, durationMs, numTurns, now) ==
    IF Has(tasks, taskId)
    THEN TasksSave(tasks, CompletedTask(tasks[taskId], status, result, costUsd,
                                        durationMs, numTurns, now))
    ELSE tasks

\* completeAgent, "Handle delegation result delivery", inside `if (task)`.
CompleteAgentMailbox(tasks, mb, taskId, status, result, costUsd, durationMs, numTurns, now) ==
    IF Has(tasks, taskId)
    THEN LET after == CompleteAgentTasks(tasks, taskId, status, result, costUsd,
                                         durationMs, numTurns, now)
         IN DeliverResult(after, mb, after[taskId], taskId, result, status, now)
    ELSE mb

\* completeAgent, "Update agent status": skipped when the agent is not found.
CompleteAgentAgents(agents, agentName) ==
    IF Has(agents, agentName)
    THEN AgentsSave(agents, IdleAgent(agents[agentName]))
    ELSE agents

\* Mutant: the agent event is emitted whether or not the agent was found.
CompleteAgentEvents_Always(agents, tasks, agentName, taskId, status) ==
    (IF Has(tasks, taskId) THEN <<TaskStatusChanged(taskId, status)>> ELSE <<>>)
    \o <<AgentStatusChanged(agentName, "idle")>>

CompleteAgentEvents(agents, tasks, agentName, taskId, status) ==
    (IF Has(tasks, taskId) THEN <<TaskStatusChanged(taskId, status)>> ELSE <<>>)
    \o (IF Has(agents, agentName) THEN <<AgentStatusChanged(agentName, "idle")>> ELSE <<>>)

\* Mutant: completeAgent returns at once when the task is not found.
CompleteAgentEffect_EarlyReturn(agents, tasks, mb, reg, agentName, taskId, status, result, costUsd, durationMs, numTurns, now) ==
    IF ~Has(tasks, taskId)
    THEN [tasks |-> tasks, mailbox |-> mb, agents |-> agents, registry |-> reg,
          emitted |-> <<>>, outcome |-> "return"]
    ELSE [tasks |-> CompleteAgentTasks(tasks, taskId, status, result, costUsd, durationMs,
                                       numTurns, now),
          mailbox |-> CompleteAgentMailbox(tasks, mb, taskId, status, result, costUsd,
                                           durationMs, numTurns, now),
          agents |-> CompleteAgentAgents(agents, agentName),
          registry |-> RegistryDelete(reg, agentName),
          emitted |-> CompleteAgentEvents(agents, tasks, agentName, taskId, status),
          outcome |-> "return"]

\* What one completeAgent call leaves behind.
CompleteAgentEffect(agents, tasks, mb, reg, agentName, taskId, status, result, costUsd, durationMs, numTurns, now) ==
    [tasks |-> CompleteAgentTasks(tasks, taskId, status, result, costUsd, durationMs,
                                  numTurns, now),
     mailbox |-> CompleteAgentMailbox(tasks, mb, taskId, status, result, costUsd,
                                      durationMs, numTurns, now),
     agents |-> CompleteAgentAgents(agents, agentName),
     registry |-> RegistryDelete(reg, agentName),
     emitted |-> CompleteAgentEvents(agents, tasks, agentName, taskId, status),
     outcome |-> "return"]

GetRunningAgentCount == Cardinality(DOMAIN runningAgents)
IsAgentRunning(agentName) == agentName \in DOMAIN runningAgents

\* ------------------------------------------------------------------ actions
Init ==
    /\ agentStore = EmptyStore
    /\ taskStore = EmptyStore
    /\ mailbox = [a \in AgentNames |-> EmptyDir]
    /\ runningAgents = EmptyStore
    /\ concurrencyLimit \in ConfiguredLimits
    /\ clock = 1
    /\ emitted = <<>>
    /\ lastCall = Call("init", NULL, NULL, "none", NullText, UNDEFINED, UNDEFINED,
                       UNDEFINED, "return", NULL)
    /\ calls = 0
    /\ orgTree = EmptyTree
    /\ handlers = EmptyStore
    /\ busLog = <<>>
    /\ invoked = <<>>
    /\ StorageIdle
    /\ FlightIdle

\* The create_agent tool.
CreateAgent(name) ==
    /\ IF Has(agentStore, name)
       THEN /\ emitted' = <<>>
            /\ UNCHANGED agentStore
       ELSE /\ agentStore' = AgentsSave(agentStore, NewAgent(name))
            /\ emitted' = <<AgentCreated(name)>>
    /\ lastCall' = Call("create_agent", name, NULL, "none", NullText, UNDEFINED,
                        UNDEFINED, UNDEFINED, "return", NULL)
    /\ UNCHANGED <<taskStore, mailbox, runningAgents, concurrencyLimit, clock, orgVars, storageVars, flightVars, busVars>>

\* The update_agent tool.
UpdateAgent(agentName, role) ==
    /\ IF Has(agentStore, agentName) /\ role # UNDEFINED
       THEN /\ agentStore' = AgentsSave(agentStore, [agentStore[agentName] EXCEPT !.role = role])
            /\ emitted' = <<AgentUpdated(agentName)>>
       ELSE /\ emitted' = <<>>
            /\ UNCHANGED agentStore
    /\ lastCall' = Call("update_agent", agentName, NULL, "none", NullText, UNDEFINED,
                        UNDEFINED, UNDEFINED, "return", role)
    /\ UNCHANGED <<taskStore, mailbox, runningAgents, concurrencyLimit, clock, orgVars, storageVars, flightVars, busVars>>

\* engine.createTask: the id is a fresh UUID.
CreateTask(id, assigneeName, delegatorName, parentTaskId) ==
    /\ ~Has(taskStore, id)
    /\ parentTaskId # id
    /\ taskStore' = TasksSave(taskStore, NewTask(id, assigneeName, delegatorName, parentTaskId))
    /\ emitted' = <<TaskCreated(id)>>
    /\ lastCall' = Call("createTask", assigneeName, id, "none", NullText, UNDEFINED,
                        UNDEFINED, UNDEFINED, "return", id)
    /\ UNCHANGED <<agentStore, mailbox, runningAgents, concurrencyLimit, clock, orgVars, storageVars, flightVars, busVars>>

SpawnAgent(agentConfig, task) ==
    /\ IF ConcurrencyLimitReached(Cardinality(DOMAIN runningAgents), concurrencyLimit)
       THEN /\ lastCall' = Call("spawnAgent", agentConfig.name, task.id, "none", NullText,
                                UNDEFINED, UNDEFINED, UNDEFINED, "throw", NULL)
            /\ emitted' = <<>>
            /\ UNCHANGED <<agentStore, taskStore, runningAgents>>
       ELSE /\ agentStore' = AgentsSave(agentStore, SpawnedAgent(agentConfig, task.id))
            /\ taskStore' = TasksSave(taskStore, SpawnedTask(task, clock))
            /\ runningAgents' = RegistrySet(runningAgents, agentConfig.name, task.id)
            /\ emitted' = <<AgentStatusChanged(agentConfig.name, "running"),
                            TaskStatusChanged(task.id, "running")>>
            /\ lastCall' = Call("spawnAgent", agentConfig.name, task.id, "none", NullText,
                                UNDEFINED, UNDEFINED, UNDEFINED, "return", task.id)
    /\ UNCHANGED <<mailbox, concurrencyLimit, clock, orgVars, storageVars, flightVars, busVars>>

CompleteAgent(agentName, taskId, status, result, costUsd, durationMs, numTurns) ==
    LET effect == CompleteAgentEffect(agentStore, taskStore, mailbox, runningAgents,
                                      agentName, taskId, status, result, costUsd,
                                      durationMs, numTurns, clock)
    IN /\ taskStore' = effect.tasks
       /\ mailbox' = effect.mailbox
       /\ agentStore' = effect.agents
       /\ runningAgents' = effect.registry
       /\ emitted' = effect.emitted
       /\ lastCall' = Call("completeAgent", agentName, taskId, status, result, costUsd,
                           durationMs, numTurns, effect.outcome, NULL)
       /\ UNCHANGED <<concurrencyLimit, clock, orgVars, storageVars, flightVars, busVars>>

\* The finish_task tool of the server created with deps.taskId = taskId.
FinishTask(taskId, status, result) ==
    /\ IF Has(taskStore, taskId)
       THEN LET task == [taskStore[taskId] EXCEPT !.status = status, !.result = result,
                                                 !.completedAt = clock]
                after == TasksSave(taskStore, task)
            IN /\ taskStore' = after
               /\ emitted' = <<TaskStatusChanged(taskId, status)>>
               /\ mailbox' = DeliverResult(after, mailbox, task, taskId, result, status, clock)
       ELSE /\ emitted' = <<>>
            /\ UNCHANGED <<taskStore, mailbox>>
    /\ lastCall' = Call("finish_task", NULL, taskId, status, result, UNDEFINED, UNDEFINED,
                        UNDEFINED, "return", NULL)
    /\ UNCHANGED <<agentStore, runningAgents, concurrencyLimit, clock, orgVars, storageVars, flightVars, busVars>>

\* The wall clock moves to the next millisecond between two calls.
Tick ==
    /\ clock < MaxClock
    /\ clock' = clock + 1
    /\ UNCHANGED <<orgVars, storageVars, flightVars, busVars, agentStore, taskStore, mailbox, runningAgents, concurrencyLimit,
                   emitted, lastCall, calls>>

\* The objects a caller hands to spawnAgent: the stored record, or a new one.
AgentArgs(name) ==
    IF Has(agentStore, name) THEN {agentStore[name]} ELSE {NewAgent(name)}
TaskArgs(id, assigneeName) ==
    IF Has(taskStore, id) THEN {taskStore[id]} ELSE {NewTask(id, assigneeName, NULL, NULL)}

\* randomUUID() gives an id no stored task has; ids are interchangeable, so
\* the least unused one stands for it.
FreshTaskId(id) == ~Has(taskStore, id) /\ \A other \in 1..(id - 1) : Has(taskStore, other)

DoCreateAgent ==
    /\ calls < MaxCalls
    /\ calls' = calls + 1
    /\ \E name \in AgentNames : CreateAgent(name)
DoCreateTask ==
    /\ calls < MaxCalls
    /\ calls' = calls + 1
    /\ \E id \in TaskIds, a \in AgentNames, d \in AgentNames \cup {NULL},
          p \in TaskIds \cup {NULL} :
            FreshTaskId(id) /\ CreateTask(id, a, d, p)
DoSpawnAgent ==
    /\ calls < MaxCalls
    /\ calls' = calls + 1
    /\ \E name \in AgentNames, id \in TaskIds :
        \E agentConfig \in AgentArgs(name), task \in TaskArgs(id, name) :
            SpawnAgent(agentConfig, task)
DoCompleteAgent ==
    /\ calls < MaxCalls
    /\ calls' = calls + 1
    /\ \E agentName \in AgentNames, taskId \in TaskIds, status \in TerminalStatuses,
          result \in ResultArgs :
            CompleteAgent(agentName, taskId, status, result, UNDEFINED, UNDEFINED, UNDEFINED)
DoFinishTask ==
    /\ calls < MaxCalls
    /\ calls' = calls + 1
    /\ \E taskId \in TaskIds, status \in TerminalStatuses, result \in FinishResultArgs :
        FinishTask(taskId, status, result)

Next ==
    \/ DoCreateAgent
    \/ DoCreateTask
    \/ DoSpawnAgent
    \/ DoCompleteAgent
    \/ DoFinishTask
    \/ Tick

Spec == Init /\ [][Next]_vars

\* ------------------------------------------------ delegation specification
\* The task store as createTask calls with any arguments leave it, before any
\* task was started: the driver and the agents' finish_task tool then report
\* completions.  Agent names are interchangeable, so the first task is
\* assigned to the first agent.  A parent task id may name a task that is not
\* in the store (createTask does not look the parent up).
ParentTaskIdArgs == TaskIds \cup {NULL, NumTasks + 1}

TasksCreated ==
    {[id \in TaskIds |-> NewTask(id, c[id][1], c[id][2], c[id][3])] :
        c \in {x \in [TaskIds -> AgentNames \X (AgentNames \cup {NULL}) \X ParentTaskIdArgs] :
                 /\ \A id \in TaskIds : x[id][3] # id
                 /\ x[1][1] = 1}}

InitDelegation ==
    /\ agentStore = EmptyStore
    /\ taskStore \in TasksCreated
    /\ mailbox = [a \in AgentNames |-> EmptyDir]
    /\ runningAgents = EmptyStore
    /\ concurrencyLimit = DEFAULT_CONCURRENCY_LIMIT
    /\ clock = 1
    /\ emitted = <<>>
    /\ lastCall = Call("init", NULL, NULL, "none", NullText, UNDEFINED, UNDEFINED,
                       UNDEFINED, "return", NULL)
    /\ calls = 0
    /\ orgTree = EmptyTree
    /\ handlers = EmptyStore
    /\ busLog = <<>>
    /\ invoked = <<>>
    /\ StorageIdle
    /\ FlightIdle

\* The driver completes a task for the agent it is assigned to.
DeliverByCompleteAgent ==
    /\ calls < MaxDeliveries
    /\ calls' = calls + 1
    /\ \E taskId \in TaskIds, status \in TerminalStatuses, result \in DeliveryResultArgs :
        CompleteAgent(taskStore[taskId].assigneeId, taskId, status, result,
                      UNDEFINED, UNDEFINED, UNDEFINED)
DeliverByFinishTask ==
    /\ calls < MaxDeliveries
    /\ calls' = calls + 1
    /\ \E taskId \in TaskIds, status \in TerminalStatuses, result \in Strings(MaxLen) :
        FinishTask(taskId, status, result)

NextDelegation ==
    \/ DeliverByCompleteAgent
    \/ DeliverByFinishTask
    \/ Tick

SpecDelegation == InitDelegation /\ [][NextDelegation]_vars

\* ------------------------------------------------- telemetry specification
\* One agent and one task, created by create_agent and createTask; the task
\* is started and completed with every choice of the optional arguments.
InitTelemetry ==
    /\ agentStore = AgentsSave(EmptyStore, NewAgent(1))
    /\ taskStore = TasksSave(EmptyStore, NewTask(1, 1, NULL, NULL))
    /\ mailbox = [a \in AgentNames |-> EmptyDir]
    /\ runningAgents = EmptyStore
    /\ concurrencyLimit = DEFAULT_CONCURRENCY_LIMIT
    /\ clock = 1
    /\ emitted = <<>>
    /\ lastCall = Call("init", NULL, NULL, "none", NullText, UNDEFINED, UNDEFINED,
                       UNDEFINED, "return", NULL)
    /\ calls = 0
    /\ orgTree = EmptyTree
    /\ handlers = EmptyStore
    /\ busLog = <<>>
    /\ invoked = <<>>
    /\ StorageIdle
    /\ FlightIdle

SpawnStored ==
    /\ calls < MaxCalls
    /\ calls' = calls + 1
    /\ SpawnAgent(agentStore[1], taskStore[1])
CompleteWithTelemetry ==
    /\ calls < MaxCalls
    /\ calls' = calls + 1
    /\ \E status \in TerminalStatuses, result \in ResultArgs, costUsd \in TelemetryArgs,
          durationMs \in TelemetryArgs, numTurns \in TelemetryArgs :
            CompleteAgent(1, 1, status, result, costUsd, durationMs, numTurns)

NextTelemetry ==
    \/ SpawnStored
    \/ CompleteWithTelemetry
    \/ Tick

SpecTelemetry == InitTelemetry /\ [][NextTelemetry]_vars

\* ---------------------------------------------------- agent specification
\* Agents are created and updated through the tools and started and stopped
\* by the engine.
DoUpdateAgent ==
    /\ calls < MaxCalls
    /\ calls' = calls + 1
    /\ \E agentName \in AgentNames, role \in RoleArgs : UpdateAgent(agentName, role)

NextAgents ==
    \/ DoCreateAgent
    \/ DoUpdateAgent
    \/ DoSpawnAgent
    \/ DoCompleteAgent

SpecAgents == Init /\ [][NextAgents]_vars

\* ----------------------------------------------------- spawn specification
\* The engine driven by spawnAgent and completeAgent alone.
NextSpawn == DoSpawnAgent \/ DoCompleteAgent

SpecSpawn == Init /\ [][NextSpawn]_vars

\* ------------------------------------------------- lifecycle specification
\* The delegate_task tool, called by agent agentName while it works on task
\* taskId (deps.taskId || null): a pending task for targetAgent, under a
\* fresh UUID.
DelegateTask(id, agentName, taskId, targetAgent) ==
    /\ ~Has(taskStore, id)
    /\ taskId # id
    /\ IF Has(agentStore, agentName) /\ Has(agentStore, targetAgent)
       THEN /\ taskStore' = TasksSave(taskStore, NewTask(id, targetAgent, agentName, taskId))
            /\ emitted' = <<TaskCreated(id)>>
       ELSE /\ emitted' = <<>>
            /\ UNCHANGED taskStore
    /\ lastCall' = Call("delegate_task", agentName, id, "none", NullText, UNDEFINED,
                        UNDEFINED, UNDEFINED, "return", targetAgent)
    /\ UNCHANGED <<agentStore, mailbox, runningAgents, concurrencyLimit, clock, orgVars, storageVars, flightVars, busVars>>

DoDelegateTask ==
    /\ calls < MaxCalls
    /\ calls' = calls + 1
    /\ \E id \in TaskIds, agentName \in AgentNames, taskId \in TaskIds \cup {NULL}, targetAgent \in AgentNames : FreshTaskId(id) /\ DelegateTask(id, agentName, taskId, targetAgent)

\* The operations that create tasks and move them through their statuses.
NextLifecycle ==
    \/ DoCreateAgent
    \/ DoCreateTask
    \/ DoDelegateTask
    \/ DoSpawnAgent
    \/ DoCompleteAgent
    \/ DoFinishTask

SpecLifecycle == Init /\ [][NextLifecycle]_vars

\* ------------------------------------------------ suspended engine calls
\* spawnAgent and completeAgent are async: a call runs to its next await,
\* is suspended there while other calls run, and resumes when the awaited
\* save, read or write is done.  A step below is the awaited operation
\* taking effect followed by the code up to the next await.  inflight
\* holds each suspended call: its arguments, the objects it holds, the
\* await it is at, and the stores and registry as they were when it began.
Flight(op, pc, agentName, taskId, agent, task, status, result) ==
    [op |-> op, pc |-> pc, agentName |-> agentName, taskId |-> taskId, agent |-> agent, task |-> task, status |-> status, result |-> result, before |-> [agents |-> agentStore, tasks |-> taskStore, registry |-> runningAgents]]

\* What an awaited step can do: succeed, reject with an I/O error (save), or
\* succeed and then have a handler of the emitted event throw (handler),
\* which EventBus.emit does not catch.
Faults == {"none", "save", "handler"}

FlightCall(f, outcome, value) ==
    Call(f.op, f.agentName, f.taskId, f.status, f.result, UNDEFINED, UNDEFINED, UNDEFINED, outcome, value)

\* The call goes on to its next await.
Suspend(c, pc) ==
    /\ inflight' = [inflight EXCEPT ![c].pc = pc]
    /\ lastCall' = FlightCall(inflight[c], "await", NULL)

\* The call ends: its promise resolves (return) or rejects (throw).
Settle(c, outcome, value) ==
    /\ inflight' = MapDelete(inflight, c)
    /\ lastCall' = FlightCall(inflight[c], outcome, value)

FlightFrame == UNCHANGED <<concurrencyLimit, clock, calls, orgVars, storageVars, busVars>>

\* spawnAgent up to `await this.agents.save(agentConfig)`.
SpawnBegin(agentConfig, task) ==
    /\ emitted' = <<>>
    /\ IF ConcurrencyLimitReached(Cardinality(DOMAIN runningAgents), concurrencyLimit)
       THEN /\ lastCall' = Call("spawnAgent", agentConfig.name, task.id, "none", NullText, UNDEFINED, UNDEFINED, UNDEFINED, "throw", NULL)
            /\ UNCHANGED inflight
       ELSE LET f == Flight("spawnAgent", "agent", agentConfig.name, task.id, <<agentConfig>>, <<task>>, "none", NullText)
            IN  /\ inflight' = Put(inflight, calls + 1, f)
                /\ lastCall' = FlightCall(f, "await", NULL)
    /\ UNCHANGED <<agentStore, taskStore, mailbox, runningAgents, concurrencyLimit, clock, orgVars, storageVars, busVars>>

\* agents.save is done; emit agent_status_changed; up to
\* `await this.tasks.save(task)`.
SpawnSaveAgent(c, fault) ==
    LET f == inflight[c]
    IN  /\ f.op = "spawnAgent" /\ f.pc = "agent"
        /\ IF fault = "save"
           THEN /\ Settle(c, "throw", NULL)
                /\ emitted' = <<>>
                /\ UNCHANGED agentStore
           ELSE /\ agentStore' = AgentsSave(agentStore, SpawnedAgent(f.agent[1], f.taskId))
                /\ emitted' = <<AgentStatusChanged(f.agentName, "running")>>
                /\ IF fault = "handler" THEN Settle(c, "throw", NULL) ELSE Suspend(c, "task")
        /\ UNCHANGED <<taskStore, mailbox, runningAgents>>
        /\ FlightFrame

\* tasks.save is done; emit task_status_changed; up to the first await of
\* the prompt reads.
SpawnSaveTask(c, fault) ==
    LET f == inflight[c]
    IN  /\ f.op = "spawnAgent" /\ f.pc = "task"
        /\ IF fault = "save"
           THEN /\ Settle(c, "throw", NULL)
                /\ emitted' = <<>>
                /\ UNCHANGED taskStore
           ELSE /\ taskStore' = TasksSave(taskStore, SpawnedTask(f.task[1], clock))
                /\ emitted' = <<TaskStatusChanged(f.taskId, "running")>>
                /\ IF fault = "handler" THEN Settle(c, "throw", NULL) ELSE Suspend(c, "prompt")
        /\ UNCHANGED <<agentStore, mailbox, runningAgents>>
        /\ FlightFrame

\* The prompt reads are done; the prompt and the MCP server are built; the
\* agent is entered in the registry and the task id returned.
SpawnRegister(c) ==
    LET f == inflight[c]
    IN  /\ f.op = "spawnAgent" /\ f.pc = "prompt"
        /\ runningAgents' = RegistrySet(runningAgents, f.agentName, f.taskId)
        /\ emitted' = <<>>
        /\ Settle(c, "return", f.taskId)
        /\ UNCHANGED <<agentStore, taskStore, mailbox>>
        /\ FlightFrame

\* completeAgent up to `await this.tasks.get(taskId)`.
CompleteBegin(agentName, taskId, status, result) ==
    /\ emitted' = <<>>
    /\ LET f == Flight("completeAgent", "task", agentName, taskId, <<>>, <<>>, status, result)
       IN  /\ inflight' = Put(inflight, calls + 1, f)
           /\ lastCall' = FlightCall(f, "await", NULL)
    /\ UNCHANGED <<agentStore, taskStore, mailbox, runningAgents, concurrencyLimit, clock, orgVars, storageVars, busVars>>

\* The await that follows the task block of completeAgent.
AfterTask(task) == IF ShouldDeliver(task) THEN "deliver" ELSE "agent"

\* tasks.get is done; when the task was found: it is saved in its final
\* state and task_status_changed emitted; up to the next await.
CompleteSaveTask(c, fault) ==
    LET f == inflight[c]
    IN  /\ f.op = "completeAgent" /\ f.pc = "task"
        /\ IF ~Has(taskStore, f.taskId)
           THEN /\ fault = "none"
                /\ Suspend(c, "agent")
                /\ emitted' = <<>>
                /\ UNCHANGED taskStore
           ELSE IF fault = "save"
           THEN /\ Settle(c, "throw", NULL)
                /\ emitted' = <<>>
                /\ UNCHANGED taskStore
           ELSE LET task == CompletedTask(taskStore[f.taskId], f.status, f.result, UNDEFINED, UNDEFINED, UNDEFINED, clock)
                IN  /\ taskStore' = TasksSave(taskStore, task)
                    /\ emitted' = <<TaskStatusChanged(f.taskId, f.status)>>
                    /\ IF fault = "handler"
                       THEN Settle(c, "throw", NULL)
                       ELSE /\ inflight' = [inflight EXCEPT ![c].pc = AfterTask(task), ![c].task = <<task>>]
                            /\ lastCall' = FlightCall(f, "await", NULL)
        /\ UNCHANGED <<agentStore, mailbox, runningAgents>>
        /\ FlightFrame

\* tasks.get(task.parentTaskId) is done; when the parent was found
\* handleChildCompletion writes the artifact; up to
\* `await this.agents.get(agentName)`.
CompleteDeliver(c, fault) ==
    LET f == inflight[c]
        task == f.task[1]
    IN  /\ f.op = "completeAgent" /\ f.pc = "deliver"
        /\ fault \in {"none", "save"}
        /\ emitted' = <<>>
        /\ IF ~Has(taskStore, task.parentTaskId)
           THEN /\ fault = "none"
                /\ Suspend(c, "agent")
                /\ UNCHANGED mailbox
           ELSE IF fault = "save"
           THEN /\ Settle(c, "throw", NULL)
                /\ UNCHANGED mailbox
           ELSE /\ mailbox' = HandleChildCompletion(mailbox, f.taskId, f.result, f.status, task.parentTaskId, taskStore[task.parentTaskId].assigneeId, clock)
                /\ Suspend(c, "agent")
        /\ UNCHANGED <<agentStore, taskStore, runningAgents>>
        /\ FlightFrame

\* agents.get is done; when the agent was found it is saved idle and
\* agent_status_changed emitted; the registry entry is deleted.
CompleteSaveAgent(c, fault) ==
    LET f == inflight[c]
    IN  /\ f.op = "completeAgent" /\ f.pc = "agent"
        /\ IF ~Has(agentStore, f.agentName)
           THEN /\ fault = "none"
                /\ runningAgents' = RegistryDelete(runningAgents, f.agentName)
                /\ Settle(c, "return", NULL)
                /\ emitted' = <<>>
                /\ UNCHANGED agentStore
           ELSE IF fault = "save"
           THEN /\ Settle(c, "throw", NULL)
                /\ emitted' = <<>>
                /\ UNCHANGED <<agentStore, runningAgents>>
           ELSE /\ agentStore' = AgentsSave(agentStore, IdleAgent(agentStore[f.agentName]))
                /\ emitted' = <<AgentStatusChanged(f.agentName, "idle")>>
                /\ IF fault = "handler"
                   THEN /\ Settle(c, "throw", NULL)
                        /\ UNCHANGED runningAgents
                   ELSE /\ runningAgents' = RegistryDelete(runningAgents, f.agentName)
                        /\ Settle(c, "return", NULL)
        /\ UNCHANGED <<taskStore, mailbox>>
        /\ FlightFrame

\* ------------------------------------------------ overlap specification
\* Two agents made by create_agent; task 1 made by createTask for agent 1,
\* task 2 delegated by agent 1 to agent 2 from task 1.  The driver then
\* starts and completes agents, its calls overlapping at the awaits.
InitFlight ==
    /\ agentStore = AgentsSave(AgentsSave(EmptyStore, NewAgent(1)), NewAgent(2))
    /\ taskStore = TasksSave(TasksSave(EmptyStore, NewTask(1, 1, NULL, NULL)), NewTask(2, 2, 1, 1))
    /\ mailbox = [a \in AgentNames |-> EmptyDir]
    /\ runningAgents = EmptyStore
    /\ concurrencyLimit \in ConfiguredLimits
    /\ clock = 1
    /\ emitted = <<>>
    /\ lastCall = Call("init", NULL, NULL, "none", NullText, UNDEFINED, UNDEFINED, UNDEFINED, "return", NULL)
    /\ calls = 0
    /\ orgTree = EmptyTree
    /\ handlers = EmptyStore
    /\ busLog = <<>>
    /\ invoked = <<>>
    /\ StorageIdle
    /\ FlightIdle

FlightTasks == {1, 2}
FlightStatuses == {"completed"}

\* A call begins, within the bound on the number of calls.
FlightCallBegins == calls < MaxFlightCalls /\ calls' = calls + 1

DoSpawnBegin ==
    /\ FlightCallBegins
    /\ \E name \in AgentNames, id \in FlightTasks : SpawnBegin(agentStore[name], taskStore[id])
DoSpawnSaveAgent == \E c \in DOMAIN inflight, fault \in Faults : SpawnSaveAgent(c, fault)
DoSpawnSaveTask == \E c \in DOMAIN inflight, fault \in Faults : SpawnSaveTask(c, fault)
DoSpawnRegister == \E c \in DOMAIN inflight : SpawnRegister(c)
DoCompleteBegin ==
    /\ FlightCallBegins
    /\ \E agentName \in AgentNames, taskId \in FlightTasks, status \in FlightStatuses : CompleteBegin(agentName, taskId, status, NullText)
DoCompleteSaveTask == \E c \in DOMAIN inflight, fault \in Faults : CompleteSaveTask(c, fault)
DoCompleteDeliver == \E c \in DOMAIN inflight, fault \in Faults : CompleteDeliver(c, fault)
DoCompleteSaveAgent == \E c \in DOMAIN inflight, fault \in Faults : CompleteSaveAgent(c, fault)

NextFlight ==
    \/ DoSpawnBegin
    \/ DoSpawnSaveAgent
    \/ DoSpawnSaveTask
    \/ DoSpawnRegister
    \/ DoCompleteBegin
    \/ DoCompleteSaveTask
    \/ DoCompleteDeliver
    \/ DoCompleteSaveAgent

SpecFlight == InitFlight /\ [][NextFlight]_vars

\* ---------------------------------------------------------------- org tree
\* The agent names the org tree is exercised with.
OrgNames == 1..NumOrgAgents

\* The node setParent creates.
OrgNode(agentName, parentAgentName) ==
    [agentName |-> agentName, parentAgentName |-> parentAgentName,
     children |-> <<>>, position |-> 0]

\* findNode: depth first, a node before its children, <<>> for null.
RECURSIVE FindNode(_, _)
FindNode(nodes, agentName) ==
    IF nodes = <<>> THEN <<>>
    ELSE IF Head(nodes).agentName = agentName THEN <<Head(nodes)>>
    ELSE LET found == FindNode(Head(nodes).children, agentName)
         IN IF found # <<>> THEN found ELSE FindNode(Tail(nodes), agentName)

\* nodes.filter(n => n.agentName !== agentName)
FilterOut(nodes, agentName) == SelectSeq(nodes, LAMBDA n : n.agentName # agentName)

RECURSIVE RemoveFromChildren(_, _)
RemoveFromChildren(nodes, agentName) ==
    [i \in 1..Len(nodes) |->
        [nodes[i] EXCEPT !.children =
            RemoveFromChildren(FilterOut(nodes[i].children, agentName), agentName)]]

RemoveFromTree(tree, agentName) ==
    [roots |-> RemoveFromChildren(FilterOut(tree.roots, agentName), agentName)]

\* Mutant: the node is put in front of the roots.
PushRoot_Front(tree, node) == [roots |-> <<node>> \o tree.roots]

\* node.position = tree.roots.length; tree.roots.push(node)
PushRoot(tree, node) ==
    [roots |-> Append(tree.roots, [node EXCEPT !.position = Len(tree.roots)])]

\* node.position = parent.children.length; parent.children.push(node), where
\* parent is the node findNode returns.
RECURSIVE PushChildIn(_, _, _)
PushChildIn(nodes, parentName, node) ==
    IF nodes = <<>> THEN <<>>
    ELSE LET first == Head(nodes)
         IN IF first.agentName = parentName
            THEN <<[first EXCEPT !.children =
                       Append(first.children,
                              [node EXCEPT !.position = Len(first.children)])]>>
                 \o Tail(nodes)
            ELSE IF FindNode(first.children, parentName) # <<>>
            THEN <<[first EXCEPT !.children =
                       PushChildIn(first.children, parentName, node)]>>
                 \o Tail(nodes)
            ELSE <<first>> \o PushChildIn(Tail(nodes), parentName, node)

PushChild(tree, parentName, node) == [roots |-> PushChildIn(tree.roots, parentName, node)]

\* Under the named parent when there is one and it is in the tree, else as a
\* root.
Attach(tree, parentName, node) ==
    IF parentName = NULL THEN PushRoot(tree, node)
    ELSE IF FindNode(tree.roots, parentName) # <<>> THEN PushChild(tree, parentName, node)
    ELSE PushRoot(tree, node)

\* Mutant: the node is inserted without detaching it from where it sits.
SetParentTree_NoDetach(tree, agentName, parentAgentName) ==
    Attach(tree, parentAgentName, OrgNode(agentName, parentAgentName))

SetParentTree(tree, agentName, parentAgentName) ==
    Attach(RemoveFromTree(tree, agentName), parentAgentName,
           OrgNode(agentName, parentAgentName))

\* for (const child of orphans) { child.parentAgentName = parentName; ... }
RECURSIVE ReparentOrphans(_, _, _)
ReparentOrphans(tree, orphans, parentName) ==
    IF orphans = <<>> THEN tree
    ELSE ReparentOrphans(
            Attach(tree, parentName, [Head(orphans) EXCEPT !.parentAgentName = parentName]),
            Tail(orphans), parentName)

\* Mutant: the node is removed together with everything below it.
RemoveAgentTree_DropsSubtree(tree, agentName) == RemoveFromTree(tree, agentName)

RemoveAgentTree(tree, agentName) ==
    LET found == FindNode(tree.roots, agentName)
    IN IF found = <<>> THEN tree
       ELSE ReparentOrphans(RemoveFromTree(tree, agentName), found[1].children,
                            found[1].parentAgentName)

GetParent(tree, agentName) ==
    LET found == FindNode(tree.roots, agentName)
    IN IF found = <<>> THEN NULL ELSE found[1].parentAgentName

GetChildren(tree, agentName) ==
    LET found == FindNode(tree.roots, agentName)
    IN IF found = <<>> THEN <<>> ELSE found[1].children

OrgChanged == [type |-> "org_changed", id |-> NULL, status |-> "none"]

\* OrgStorage.setParent
SetParent(agentName, parentAgentName) ==
    /\ orgTree' = SetParentTree(orgTree, agentName, parentAgentName)
    /\ emitted' = <<>>
    /\ lastCall' = Call("setParent", agentName, NULL, "none", NullText, UNDEFINED,
                        UNDEFINED, UNDEFINED, "return", parentAgentName)
    /\ UNCHANGED <<engineVars, busVars, storageVars, flightVars>>

\* OrgStorage.removeAgent
RemoveAgent(agentName) ==
    /\ orgTree' = RemoveAgentTree(orgTree, agentName)
    /\ emitted' = <<>>
    /\ lastCall' = Call("removeAgent", agentName, NULL, "none", NullText, UNDEFINED,
                        UNDEFINED, UNDEFINED, "return", NULL)
    /\ UNCHANGED <<engineVars, busVars, storageVars, flightVars>>

\* The set_org_parent tool.
SetOrgParent(agentName, parentAgentName) ==
    /\ IF /\ Has(agentStore, agentName)
          /\ parentAgentName # NULL => Has(agentStore, parentAgentName)
       THEN /\ orgTree' = SetParentTree(orgTree, agentName, parentAgentName)
            /\ emitted' = <<OrgChanged>>
       ELSE /\ emitted' = <<>>
            /\ UNCHANGED orgTree
    /\ lastCall' = Call("set_org_parent", agentName, NULL, "none", NullText, UNDEFINED,
                        UNDEFINED, UNDEFINED, "return", parentAgentName)
    /\ UNCHANGED <<engineVars, busVars, storageVars, flightVars>>

\* ------------------------------------------------------ org specification
\* The agents of the store were made by create_agent; the org tree starts
\* empty and is changed through the storage and through the tool.
InitOrg ==
    /\ agentStore = [name \in AgentNames |-> NewAgent(name)]
    /\ taskStore = EmptyStore
    /\ mailbox = [a \in AgentNames |-> EmptyDir]
    /\ runningAgents = EmptyStore
    /\ concurrencyLimit = DEFAULT_CONCURRENCY_LIMIT
    /\ clock = 1
    /\ emitted = <<>>
    /\ lastCall = Call("init", NULL, NULL, "none", NullText, UNDEFINED, UNDEFINED,
                       UNDEFINED, "return", NULL)
    /\ calls = 0
    /\ orgTree = EmptyTree
    /\ handlers = EmptyStore
    /\ busLog = <<>>
    /\ invoked = <<>>
    /\ StorageIdle
    /\ FlightIdle

DoSetParent ==
    /\ calls < MaxOrgCalls
    /\ calls' = calls + 1
    /\ \E agentName \in OrgNames, parentAgentName \in OrgNames \cup {NULL} :
        SetParent(agentName, parentAgentName)
DoRemoveAgent ==
    /\ calls < MaxOrgCalls
    /\ calls' = calls + 1
    /\ \E agentName \in OrgNames : RemoveAgent(agentName)
DoSetOrgParent ==
    /\ calls < MaxOrgCalls
    /\ calls' = calls + 1
    /\ \E agentName \in OrgNames, parentAgentName \in OrgNames \cup {NULL} :
        SetOrgParent(agentName, parentAgentName)

NextOrg ==
    \/ DoSetParent
    \/ DoRemoveAgent
    \/ DoSetOrgParent

SpecOrg == InitOrg /\ [][NextOrg]_vars

\* --------------------------------------------------------------- delete_agent
AgentDeleted(agentName) == [type |-> "agent_deleted", id |-> agentName, status |-> "none"]

\* agent.status === "running": the tool refuses.
DeleteRefused_Never(agent) == FALSE

DeleteRefused(agent) == agent.status = "running"

\* The delete_agent tool.  agents.delete removes the agent's directory, with
\* its results mailbox; org.removeAgent takes the agent out of the tree.
DeleteAgent(agentName) ==
    /\ IF Has(agentStore, agentName) /\ ~DeleteRefused(agentStore[agentName])
       THEN /\ agentStore' = MapDelete(agentStore, agentName)
            /\ mailbox' = [mailbox EXCEPT ![agentName] = EmptyDir]
            /\ orgTree' = RemoveAgentTree(orgTree, agentName)
            /\ emitted' = <<AgentDeleted(agentName)>>
       ELSE /\ emitted' = <<>>
            /\ UNCHANGED <<agentStore, mailbox, orgTree>>
    /\ lastCall' = Call("delete_agent", agentName, NULL, "none", NullText, UNDEFINED,
                        UNDEFINED, UNDEFINED, "return", NULL)
    /\ UNCHANGED <<taskStore, runningAgents, concurrencyLimit, clock, busVars, storageVars, flightVars>>

DoDeleteAgent ==
    /\ calls < MaxCalls
    /\ calls' = calls + 1
    /\ \E agentName \in AgentNames : DeleteAgent(agentName)

\* The agents exist; they are placed in the tree, spawned, completed,
\* deleted and created again.
NextDeletion ==
    \/ DoCreateAgent
    \/ DoSetOrgParent
    \/ DoSpawnAgent
    \/ DoCompleteAgent
    \/ DoDeleteAgent

SpecDeletion == InitOrg /\ [][NextDeletion]_vars

\* ------------------------------------------------ registry specification
\* From an empty store and registry: the agent tools and the driver's
\* spawnAgent and completeAgent calls, each run to completion.
NextRegistry ==
    \/ DoCreateAgent
    \/ DoUpdateAgent
    \/ DoDeleteAgent
    \/ DoSpawnAgent
    \/ DoCompleteAgent

SpecRegistry == Init /\ [][NextRegistry]_vars

\* --------------------------------------------------------------- event bus
EventKinds == {"foo", "bar"}
HandlerIds == 1..NumHandlers
Payloads == 1..NumPayloads

\* A call made on the bus.  An unsubscribe call is the call of the function
\* that on(kind, handler) returned.
BusCall(op, kind, handler, payload) ==
    [op |-> op, kind |-> kind, handler |-> handler, payload |-> payload]

\* Set.add: a value that is in the set keeps its place.
SetAdd(set, handler) ==
    IF \E i \in 1..Len(set) : set[i] = handler THEN set ELSE Append(set, handler)

\* Set.delete
SetDelete(set, handler) == SelectSeq(set, LAMBDA h : h # handler)


\* on: this.handlers.get(event) ?? new Set(); add; set.
BusOn(map, kind, handler) ==
    Put(map, kind, SetAdd(IF Has(map, kind) THEN map[kind] ELSE <<>>, handler))

\* Mutant: the returned function does nothing.
BusUnsubscribe_Nothing(map, kind, handler) == map

\* The function on returns: delete the handler, and the event with its last
\* handler.
BusUnsubscribe(map, kind, handler) ==
    IF ~Has(map, kind) THEN map
    ELSE LET set == SetDelete(map[kind], handler)
         IN IF Len(set) = 0 THEN MapDelete(map, kind) ELSE Put(map, kind, set)

\* A handler is a function that returns, or one that throws.
ThrowingHandlers == {NumHandlers + 1}
AllHandlers == HandlerIds \cup ThrowingHandlers
HandlerThrows(handler) == handler \in ThrowingHandlers

\* for (const handler of set) handler(payload): the loop ends with the set or
\* with the first handler that throws.
CallsMade(set) ==
    IF \E i \in 1..Len(set) : HandlerThrows(set[i])
    THEN CHOOSE i \in 1..Len(set) :
            /\ HandlerThrows(set[i])
            /\ \A j \in 1..(i - 1) : ~HandlerThrows(set[j])
    ELSE Len(set)

\* Mutant: the handlers are called last registered first.
BusEmit_Reversed(map, kind, payload) ==
    IF ~Has(map, kind) THEN <<>>
    ELSE [i \in 1..Len(map[kind]) |->
            [handler |-> map[kind][Len(map[kind]) + 1 - i], kind |-> kind,
             payload |-> payload, outcome |-> "return"]]

\* emit: the handler calls it makes, in order.
BusEmit(map, kind, payload) ==
    IF ~Has(map, kind) THEN <<>>
    ELSE [i \in 1..CallsMade(map[kind]) |->
            [handler |-> map[kind][i], kind |-> kind, payload |-> payload,
             outcome |-> IF HandlerThrows(map[kind][i]) THEN "throw" ELSE "return"]]

\* emit returns unless the last handler it called threw.
EmitOutcome(calls_) ==
    IF calls_ # <<>> /\ calls_[Len(calls_)].outcome = "throw" THEN "throw" ELSE "return"

\* The unsubscribe functions that on has returned so far.
Tokens == {<<busLog[i].kind, busLog[i].handler>> :
                i \in {j \in 1..Len(busLog) : busLog[j].op = "on"}}

On(kind, handler) ==
    /\ handlers' = BusOn(handlers, kind, handler)
    /\ invoked' = <<>>
    /\ busLog' = Append(busLog, BusCall("on", kind, handler, NULL))

Unsubscribe(kind, handler) ==
    /\ <<kind, handler>> \in Tokens
    /\ handlers' = BusUnsubscribe(handlers, kind, handler)
    /\ invoked' = <<>>
    /\ busLog' = Append(busLog, BusCall("unsubscribe", kind, handler, NULL))

Emit(kind, payload) ==
    /\ invoked' = BusEmit(handlers, kind, payload)
    /\ busLog' = Append(busLog, BusCall("emit", kind, NULL, payload))
    /\ UNCHANGED handlers

RemoveAllListeners ==
    /\ handlers' = EmptyStore
    /\ invoked' = <<>>
    /\ busLog' = Append(busLog, BusCall("removeAllListeners", "none", NULL, NULL))

\* ------------------------------------------------------ bus specification
InitBus ==
    /\ agentStore = EmptyStore
    /\ taskStore = EmptyStore
    /\ mailbox = [a \in AgentNames |-> EmptyDir]
    /\ runningAgents = EmptyStore
    /\ concurrencyLimit = DEFAULT_CONCURRENCY_LIMIT
    /\ clock = 1
    /\ emitted = <<>>
    /\ lastCall = Call("init", NULL, NULL, "none", NullText, UNDEFINED, UNDEFINED,
                       UNDEFINED, "return", NULL)
    /\ calls = 0
    /\ orgTree = EmptyTree
    /\ handlers = EmptyStore
    /\ busLog = <<>>
    /\ invoked = <<>>
    /\ StorageIdle
    /\ FlightIdle

DoOn ==
    /\ Len(busLog) < MaxBusCalls
    /\ \E kind \in EventKinds, handler \in HandlerIds : On(kind, handler)
    /\ UNCHANGED <<engineVars, emitted, lastCall, calls, orgVars, storageVars, flightVars>>
DoUnsubscribe ==
    /\ Len(busLog) < MaxBusCalls
    /\ \E kind \in EventKinds, handler \in HandlerIds : Unsubscribe(kind, handler)
    /\ UNCHANGED <<engineVars, emitted, lastCall, calls, orgVars, storageVars, flightVars>>
DoEmit ==
    /\ Len(busLog) < MaxBusCalls
    /\ \E kind \in EventKinds, payload \in Payloads : Emit(kind, payload)
    /\ UNCHANGED <<engineVars, emitted, lastCall, calls, orgVars, storageVars, flightVars>>
DoRemoveAllListeners ==
    /\ Len(busLog) < MaxBusCalls
    /\ RemoveAllListeners
    /\ UNCHANGED <<engineVars, emitted, lastCall, calls, orgVars, storageVars, flightVars>>

NextBus ==
    \/ DoOn
    \/ DoUnsubscribe
    \/ DoEmit
    \/ DoRemoveAllListeners

SpecBus == InitBus /\ [][NextBus]_vars

\* -------------------------------------- bus specification, with exceptions
\* The same bus, with a handler that throws among those that subscribe.
DoOnAny ==
    /\ Len(busLog) < MaxThrowCalls
    /\ \E kind \in EventKinds, handler \in AllHandlers : On(kind, handler)
    /\ UNCHANGED <<engineVars, emitted, lastCall, calls, orgVars, storageVars, flightVars>>
DoUnsubscribeAny ==
    /\ Len(busLog) < MaxThrowCalls
    /\ \E kind \in EventKinds, handler \in AllHandlers : Unsubscribe(kind, handler)
    /\ UNCHANGED <<engineVars, emitted, lastCall, calls, orgVars, storageVars, flightVars>>
DoEmitAny ==
    /\ Len(busLog) < MaxThrowCalls
    /\ \E kind \in EventKinds, payload \in Payloads : Emit(kind, payload)
    /\ UNCHANGED <<engineVars, emitted, lastCall, calls, orgVars, storageVars, flightVars>>

NextBusThrow ==
    \/ DoOnAny
    \/ DoUnsubscribeAny
    \/ DoEmitAny

SpecBusThrow == InitBus /\ [][NextBusThrow]_vars

\* ------------------------------------- bus specification, with the tokens
\* The function returned by the i-th call on the bus, an on(kind, handler),
\* is called: it holds kind and handler and nothing else.
UnsubscribeToken(i) ==
    /\ busLog[i].op = "on"
    /\ handlers' = BusUnsubscribe(handlers, busLog[i].kind, busLog[i].handler)
    /\ invoked' = <<>>
    /\ busLog' = Append(busLog, BusCall("unsubscribe", busLog[i].kind, busLog[i].handler, i))

DoUnsubscribeToken ==
    /\ Len(busLog) < MaxBusCalls
    /\ \E i \in 1..Len(busLog) : UnsubscribeToken(i)
    /\ UNCHANGED <<engineVars, emitted, lastCall, calls, orgVars, storageVars, flightVars>>

NextTokens ==
    \/ DoOn
    \/ DoUnsubscribeToken
    \/ DoEmit

SpecTokens == InitBus /\ [][NextTokens]_vars

\* ----------------------------------------------------------- entity stores
\* AgentStorage, TaskStorage, MessageStorage, BoardStorage and OrgStorage
\* over the files of the workspace.  Ids, names and thread ids are numbers,
\* createdAt of a JSON record is the instant its ISO string denotes.

Returned(value) == [outcome |-> "return", value |-> value]
Thrown == [outcome |-> "throw", value |-> <<>>]

\* JSON.stringify(value, null, 2): the text of a JSON document.  closed is
\* FALSE for a text that stops before the end of the document.
JsonStringify(value) == [value |-> value, closed |-> TRUE]

\* JSON.parse(data): the value, or a SyntaxError when the text is cut short.
JsonParse(text) == IF text.closed THEN Returned(<<text.value>>) ELSE Thrown

\* The text of a board file is a sequence of symbols: the four characters
\* the parser tells apart (newline, space, colon, dash) and words, each a
\* run of other characters.  The fields of a board item are such texts.
NL == "\n"
IsWhitespace(c) == c \in {" ", NL}

RECURSIVE TrimStart(_)
TrimStart(s) == IF s # <<>> /\ IsWhitespace(Head(s)) THEN TrimStart(Tail(s)) ELSE s

RECURSIVE TrimEnd(_)
TrimEnd(s) == IF s # <<>> /\ IsWhitespace(s[Len(s)]) THEN TrimEnd(SubSeq(s, 1, Len(s) - 1)) ELSE s

\* String.prototype.trim
TrimBoth(s) == TrimEnd(TrimStart(s))

BOARD_ITEM_TYPES == <<"status_update", "blocker", "finding", "request">>
BOARD_TYPE_TO_FOLDER == [status_update |-> "status-updates", blocker |-> "blockers", finding |-> "findings", request |-> "requests"]

\* BOARD_TYPE_TO_FOLDER[type], or nothing when type is not a board type.
FolderOf(type) == IF Len(type) = 1 /\ type[1] \in DOMAIN BOARD_TYPE_TO_FOLDER THEN <<BOARD_TYPE_TO_FOLDER[type[1]]>> ELSE <<>>

\* join(boardDir, folder, id + ".md")
FilePath(folder, id) == <<"board/", folder, "/">> \o id \o <<".md">>

Dashes == <<"-", "-", "-">>
FrontmatterLine(key, value) == <<key, ":", " ">> \o value

ToMarkdown(item) == Dashes \o <<NL>> \o FrontmatterLine("id", item.id) \o <<NL>> \o FrontmatterLine("type", item.type) \o <<NL>> \o FrontmatterLine("author", item.author) \o <<NL>> \o FrontmatterLine("summary", item.summary) \o <<NL>> \o FrontmatterLine("createdAt", item.createdAt) \o <<NL>> \o Dashes \o <<NL, NL>> \o item.body \o <<NL>>

StartsWithAt(s, prefix, at) == at + Len(prefix) - 1 <= Len(s) /\ SubSeq(s, at, at + Len(prefix) - 1) = prefix

\* content.match(/^---\n([\s\S]*?)\n---\n\n?([\s\S]*)$/): nothing when the
\* text does not match, else the two groups.  The first group is lazy, so
\* it ends at the first "\n---\n" after the opening line.
MatchDocument(content) ==
    LET fence == <<NL>> \o Dashes \o <<NL>>
        ends == {k \in 5..Len(content) : StartsWithAt(content, fence, k)}
    IN  IF ~StartsWithAt(content, Dashes \o <<NL>>, 1) \/ ends = {}
        THEN <<>>
        ELSE LET k == CHOOSE e \in ends : \A o \in ends : e <= o
                 after == k + Len(fence)
                 rest == IF after <= Len(content) /\ content[after] = NL THEN after + 1 ELSE after
             IN  <<SubSeq(content, 5, k - 1), SubSeq(content, rest, Len(content))>>

\* line.indexOf(":"), counted from 1; 0 when there is no colon.
IndexOfColon(line) ==
    LET at == {i \in 1..Len(line) : line[i] = ":"}
    IN  IF at = {} THEN 0 ELSE CHOOSE i \in at : \A o \in at : i <= o

\* frontmatter.split("\n")
RECURSIVE SplitLines(_)
SplitLines(s) ==
    LET at == {i \in 1..Len(s) : s[i] = NL}
    IN  IF at = {} THEN <<s>>
        ELSE LET i == CHOOSE e \in at : \A o \in at : e <= o
             IN  <<SubSeq(s, 1, i - 1)>> \o SplitLines(SubSeq(s, i + 1, Len(s)))

\* The value of a property that fromMarkdown never assigned.
UndefinedText == <<"undefined">>

\* fields[key] after the loop over the lines: the value of the last line
\* whose trimmed key is key.
FieldOf(lines, key) ==
    LET hits == {i \in 1..Len(lines) : IndexOfColon(lines[i]) # 0 /\ TrimBoth(SubSeq(lines[i], 1, IndexOfColon(lines[i]) - 1)) = <<key>>}
    IN  IF hits = {} THEN UndefinedText
        ELSE LET i == CHOOSE h \in hits : \A o \in hits : h >= o
             IN  TrimBoth(SubSeq(lines[i], IndexOfColon(lines[i]) + 1, Len(lines[i])))

\* fields.key ?? ""
OrEmpty(value) == IF value = UndefinedText THEN <<>> ELSE value

\* BoardStorage.fromMarkdown: nothing for null, else the item.
FromMarkdown(content, filePath) ==
    LET match == MatchDocument(content)
    IN  IF match = <<>> \/ match[1] = <<>> THEN <<>>
        ELSE LET lines == SplitLines(match[1])
             IN  <<[id |-> OrEmpty(FieldOf(lines, "id")),
                    type |-> FieldOf(lines, "type"),
                    author |-> OrEmpty(FieldOf(lines, "author")),
                    summary |-> OrEmpty(FieldOf(lines, "summary")),
                    body |-> TrimEnd(match[2]),
                    createdAt |-> OrEmpty(FieldOf(lines, "createdAt")),
                    path |-> filePath]>>

\* ---- keys and paths ----
\* The key get takes: name, id, <<messageId, threadId>>, <<type, id>>; the
\* org store holds one document and get takes nothing.
KeyOf(store, e) ==
    CASE store = "agents" -> e.name
      [] store = "tasks" -> e.id
      [] store = "messages" -> <<e.id, e.threadId>>
      [] store = "board" -> <<e.type, e.id>>
      [] store = "org" -> NULL

\* <<directory, name>> of the file of a key: agents/<name>/config.json,
\* tasks/<id>.json, messages/<threadId>/<id>.json, board/<folder>/<id>.md,
\* org.json.
PathOf(store, key) ==
    CASE store = "agents" -> <<key, NULL>>
      [] store = "tasks" -> <<NULL, key>>
      [] store = "messages" -> <<key[2], key[1]>>
      [] store = "board" -> <<FolderOf(key[1])[1], key[2]>>
      [] store = "org" -> <<NULL, NULL>>

RecordPath(path) == <<path[1], path[2], FALSE>>

\* `${filePath}.tmp`
TmpPath_InPlace(path) == <<path[1], path[2], FALSE>>

TmpPath(path) == <<path[1], path[2], TRUE>>

Serialize(store, e) == IF store = "board" THEN ToMarkdown(e) ELSE JsonStringify(e)

\* What a file holds while writeFile is still writing text into it.
Partial(store, text) ==
    IF store = "board" THEN {SubSeq(text, 1, Len(text) \div 2)}
    ELSE {[text EXCEPT !.closed = FALSE]}

\* ---- file operations ----
\* mkdir(dir, { recursive: true })
Mkdir(d, store, dir) == [d EXCEPT ![store].root = TRUE, ![store].dirs = @ \cup {dir}]

WriteFileAt(d, store, path, text) == [d EXCEPT ![store].files = [p \in DOMAIN @ \cup {path} |-> IF p = path THEN text ELSE @[p]]]

\* rename(from, to)
Rename(d, store, from, to) == [d EXCEPT ![store].files = [p \in (DOMAIN @ \ {from}) \cup {to} |-> IF p = to THEN @[from] ELSE @[p]]]

\* rm(file, { force: true })
RemoveFile_Keeps(d, store, path) == d

RemoveFile(d, store, path) == [d EXCEPT ![store].files = [p \in DOMAIN @ \ {path} |-> @[p]]]

\* rm(dir, { recursive: true, force: true })
RemoveDir(d, store, dir) == [d EXCEPT ![store].dirs = @ \ {dir}, ![store].files = [p \in {q \in DOMAIN @ : q[1] # dir} |-> @[p]]]

\* readFile(path): nothing for ENOENT, else the content.
ReadFile(d, store, path) == IF path \in DOMAIN d[store].files THEN <<d[store].files[path]>> ELSE <<>>

\* ---- get ----
BoardGet(d, type, id) ==
    LET folder == FolderOf(type)
    IN  IF folder = <<>> THEN Returned(<<>>)
        ELSE LET file == ReadFile(d, "board", <<folder[1], id, FALSE>>)
             IN  IF file = <<>> THEN Returned(<<>>)
                 ELSE Returned(FromMarkdown(file[1], FilePath(folder[1], id)))

\* get of each store: the record as <<record>>, <<>> for null, or a throw.
StoreGet(d, store, key) ==
    IF store = "board" THEN BoardGet(d, key[1], key[2])
    ELSE LET file == ReadFile(d, store, RecordPath(PathOf(store, key)))
         IN  IF file = <<>>
             THEN IF store = "org" THEN Returned(<<EmptyTree>>) ELSE Returned(<<>>)
             ELSE JsonParse(file[1])

\* ---- list ----
\* The orders in which readdir can report the members of a set.
Orders(S) == {o \in [1..Cardinality(S) -> S] : \A i, j \in 1..Cardinality(S) : i # j => o[i] # o[j]}

\* readdir(dir), given the order of all the files of the store.
ReadDir(order, dir) == SelectSeq(order, LAMBDA p : p[1] = dir)

\* The entries a list loop does not skip: "<id>.json" or "<id>.md", and not
\* "<id>.json.tmp" or "<id>.md.tmp".
RecordEntries(entries) == SelectSeq(entries, LAMBDA p : ~p[3])

\* The results of get for each key in turn: the records found, or a throw
\* when a get throws.
RECURSIVE GetAll(_, _, _)
GetAll(d, store, keys) ==
    IF keys = <<>> THEN Returned(<<>>)
    ELSE LET got == StoreGet(d, store, Head(keys))
             rest == GetAll(d, store, Tail(keys))
         IN  IF got.outcome = "throw" \/ rest.outcome = "throw" THEN Thrown
             ELSE Returned(got.value \o rest.value)

\* new Date(createdAt).getTime() of a board item: NaN unless the text is a
\* timestamp.
NaN == -1
DateParse(text) ==
    LET instants == {n \in 0..9 : Len(text) = 1 /\ ToString(n) = text[1]}
    IN  IF instants = {} THEN NaN ELSE CHOOSE n \in instants : TRUE

GetTime(store, createdAt) == IF store = "board" THEN DateParse(createdAt) ELSE createdAt

\* The comparator of the sorts: sign * (time(a) - time(b)), sign being 1
\* for ascending and -1 for descending; NaN counts as 0.
Compare(a, b, sign) == IF a.time = NaN \/ b.time = NaN THEN 0 ELSE sign * (a.time - b.time)

RECURSIVE InsertSorted(_, _, _)
InsertSorted(sorted, x, sign) ==
    IF sorted = <<>> THEN <<x>>
    ELSE IF Compare(x, Head(sorted), sign) < 0 THEN <<x>> \o sorted
    ELSE <<Head(sorted)>> \o InsertSorted(Tail(sorted), x, sign)

\* Array.prototype.sort, which is stable.
SortKeyed_Unsorted(keyed, sign) == keyed

RECURSIVE SortKeyed(_, _)
SortKeyed(keyed, sign) ==
    IF keyed = <<>> THEN <<>>
    ELSE InsertSorted(SortKeyed(SubSeq(keyed, 1, Len(keyed) - 1), sign), keyed[Len(keyed)], sign)

SortByCreatedAt(records, store, sign) ==
    LET keyed == [i \in DOMAIN records |-> [time |-> GetTime(store, records[i].createdAt), rec |-> records[i]]]
        sorted == SortKeyed(keyed, sign)
    IN  [i \in DOMAIN sorted |-> sorted[i].rec]

\* filter?.field && record.field !== filter.field
NoFilter == ""
TaskPasses(task, filter) ==
    /\ filter.assigneeId = UNDEFINED \/ task.assigneeId = filter.assigneeId
    /\ filter.status = NoFilter \/ task.status = filter.status

AgentsList(d, order) ==
    IF ~d["agents"].root THEN Returned(<<>>)
    ELSE GetAll(d, "agents", order)

TasksList(d, filter, order) ==
    IF ~d["tasks"].root THEN Returned(<<>>)
    ELSE LET entries == RecordEntries(ReadDir(order, NULL))
             found == GetAll(d, "tasks", [i \in DOMAIN entries |-> entries[i][2]])
         IN  IF found.outcome = "throw" THEN Thrown
             ELSE Returned(SortByCreatedAt(SelectSeq(found.value, LAMBDA t : TaskPasses(t, filter)), "tasks", -1))

ListThread(d, threadId, order) ==
    IF threadId \notin d["messages"].dirs THEN Returned(<<>>)
    ELSE LET entries == RecordEntries(ReadDir(order, threadId))
             found == GetAll(d, "messages", [i \in DOMAIN entries |-> <<entries[i][2], threadId>>])
         IN  IF found.outcome = "throw" THEN Thrown
             ELSE Returned(SortByCreatedAt(found.value, "messages", 1))

\* The loop of BoardStorage.list over the types: the items pushed.
RECURSIVE BoardScan(_, _, _, _)
BoardScan(d, types, filter, order) ==
    IF types = <<>> THEN <<>>
    ELSE LET folder == FolderOf(Head(types))[1]
             entries == RecordEntries(ReadDir(order, folder))
             found == GetAll(d, "board", [i \in DOMAIN entries |-> <<Head(types), entries[i][2]>>])
             kept == SelectSeq(found.value, LAMBDA item : filter.author = <<>> \/ item.author = filter.author)
         IN  (IF folder \in d["board"].dirs THEN kept ELSE <<>>) \o BoardScan(d, Tail(types), filter, order)

BoardList(d, filter, order) ==
    LET types == IF filter.type # <<>> THEN <<filter.type>> ELSE [i \in DOMAIN BOARD_ITEM_TYPES |-> <<BOARD_ITEM_TYPES[i]>>]
        items == SortByCreatedAt(BoardScan(d, types, filter, order), "board", -1)
    IN  Returned(IF filter.limit # 0 /\ filter.limit < Len(items) THEN SubSeq(items, 1, filter.limit) ELSE items)

StoreList(d, store, arg, order) ==
    CASE store = "agents" -> AgentsList(d, order)
      [] store = "tasks" -> TasksList(d, arg, order)
      [] store = "messages" -> ListThread(d, arg, order)
      [] store = "board" -> BoardList(d, arg, order)

\* Whether the directory a list reads exists.
ContainerExists(d, store, arg) == IF store = "messages" THEN arg \in d[store].dirs ELSE d[store].root

\* ---- the calls ----
\* A save, delete or crash: it is the last call and joins the log.
Logged(call) == storageLog' = Append(storageLog, call) /\ storageCall' = call

\* save, up to its first await: mkdir, and writeFile(tmpPath) under way.
SaveOpen(store, e) ==
    /\ saving = <<>>
    /\ LET path == PathOf(store, KeyOf(store, e))
           text == Serialize(store, e)
       IN  /\ \E partial \in Partial(store, text) : disk' = WriteFileAt(Mkdir(disk, store, path[1]), store, TmpPath(path), partial)
           /\ saving' = <<[store |-> store, key |-> KeyOf(store, e), entity |-> e, path |-> path, text |-> text, step |-> "open", old |-> StoreGet(disk, store, KeyOf(store, e))]>>
    /\ UNCHANGED <<storageLog, storageCall>>

\* writeFile(tmpPath, text) completes.
SaveWrite ==
    /\ saving # <<>>
    /\ saving[1].step = "open"
    /\ disk' = WriteFileAt(disk, saving[1].store, TmpPath(saving[1].path), saving[1].text)
    /\ saving' = <<[saving[1] EXCEPT !.step = "written"]>>
    /\ UNCHANGED <<storageLog, storageCall>>

\* rename(tmpPath, filePath), and save returns.
SaveRename ==
    /\ saving # <<>>
    /\ saving[1].step = "written"
    /\ disk' = Rename(disk, saving[1].store, TmpPath(saving[1].path), RecordPath(saving[1].path))
    /\ saving' = <<>>
    /\ Logged(StorageCall("save", saving[1].store, saving[1].key, saving[1].entity, TRUE, Returned(<<>>)))

\* The process stops while a save is suspended; the files stay as they are.
Crash ==
    /\ saving # <<>>
    /\ saving' = <<>>
    /\ Logged(StorageCall("crash", saving[1].store, saving[1].key, saving[1].entity, TRUE, saving[1].old))
    /\ UNCHANGED disk

Get(store, key) ==
    /\ storageCall' = StorageCall("get", store, key, NULL, TRUE, StoreGet(disk, store, key))
    /\ UNCHANGED <<disk, saving, storageLog>>

List(store, arg, order) ==
    /\ storageCall' = StorageCall("list", store, arg, order, ContainerExists(disk, store, arg), StoreList(disk, store, arg, order))
    /\ UNCHANGED <<disk, saving, storageLog>>

\* AgentStorage.delete and TaskStorage.delete.
Delete(store, key) ==
    /\ saving = <<>>
    /\ disk' = IF store = "agents" THEN RemoveDir(disk, store, key) ELSE RemoveFile(disk, store, RecordPath(PathOf(store, key)))
    /\ Logged(StorageCall("delete", store, key, NULL, TRUE, Returned(<<>>)))
    /\ UNCHANGED saving

\* ---------------------------------------------------- storage specification
RecordKeys == 1..NumRecords
Times == 1..MaxTime
ThreadIds == {1, 2}

StoredAgents == [name : RecordKeys, status : {"idle", "running"}]
StoredTasks == [id : RecordKeys, assigneeId : {1}, status : {"pending"}, createdAt : Times]
StoredMessages == [id : RecordKeys, threadId : {1}, createdAt : Times]
StoredTrees == {EmptyTree, [roots |-> <<OrgNode(1, NULL)>>]}
BoardSummaries == {<<"s", ":", ":", "t">>, <<"s", " ">>}
BoardBodies == {<<"x">>, <<"x", NL>>}
BoardItems == [id : {<<"b1">>}, type : {<<"finding">>}, author : {<<"1">>}, summary : BoardSummaries, body : BoardBodies, createdAt : {<<"1">>}, path : {<<>>}]

SaveArgs(store) ==
    CASE store = "agents" -> StoredAgents
      [] store = "tasks" -> StoredTasks
      [] store = "messages" -> StoredMessages
      [] store = "board" -> BoardItems
      [] store = "org" -> StoredTrees

GetArgs(store) ==
    CASE store = "agents" -> RecordKeys
      [] store = "tasks" -> RecordKeys
      [] store = "messages" -> RecordKeys \X ThreadIds
      [] store = "board" -> {<<"finding">>, <<"blocker">>, <<"memo">>} \X {<<"b1">>}
      [] store = "org" -> {NULL}

ListArgs(store) ==
    CASE store = "agents" -> {NULL}
      [] store = "tasks" -> [assigneeId : {UNDEFINED, 1}, status : {NoFilter, "completed"}]
      [] store = "messages" -> ThreadIds
      [] store = "board" -> [type : {<<>>, <<"blocker">>}, author : {<<>>, <<"1">>}, limit : {0, 1}]

ListOrders(d, store) == IF store = "agents" THEN Orders(d[store].dirs) ELSE Orders(DOMAIN d[store].files)

StorageUnchanged == UNCHANGED <<engineVars, emitted, lastCall, orgVars, busVars, flightVars>>

\* A call begins, within the bound on the number of calls.
StorageCallBegins == calls < MaxStorageCalls /\ calls' = calls + 1

DoSaveOpen ==
    /\ StorageCallBegins
    /\ \E store \in StoreNames : \E e \in SaveArgs(store) : SaveOpen(store, e)
    /\ StorageUnchanged

DoSaveWrite == SaveWrite /\ UNCHANGED calls /\ StorageUnchanged

DoSaveRename == SaveRename /\ UNCHANGED calls /\ StorageUnchanged

DoCrash == Crash /\ UNCHANGED calls /\ StorageUnchanged

DoGet ==
    /\ StorageCallBegins
    /\ \E store \in StoreNames : \E key \in GetArgs(store) : Get(store, key)
    /\ StorageUnchanged

DoList ==
    /\ StorageCallBegins
    /\ \E store \in StoreNames \ {"org"} : \E arg \in ListArgs(store) : \E order \in ListOrders(disk, store) : List(store, arg, order)
    /\ StorageUnchanged

DoDelete ==
    /\ StorageCallBegins
    /\ \E store \in {"agents", "tasks"} : \E key \in RecordKeys : Delete(store, key)
    /\ StorageUnchanged

NextStorage == DoSaveOpen \/ DoSaveWrite \/ DoSaveRename \/ DoCrash \/ DoGet \/ DoList \/ DoDelete

InitStorage == Init /\ concurrencyLimit = DEFAULT_CONCURRENCY_LIMIT

SpecStorage == InitStorage /\ [][NextStorage]_vars

\* ------------------------------------------------------ overlapping saves
\* Several save calls in one process, each suspended at its awaits while
\* the others proceed.  saving holds the calls in the order they were
\* issued; a call that has ended stays in it with its outcome.  writeFile is
\* taken as one step.
\* save, up to `await mkdir(...)`.
OverlapOpen(store, e) ==
    /\ Len(saving) < MaxSaves
    /\ LET path == PathOf(store, KeyOf(store, e))
       IN  saving' = Append(saving, [store |-> store, key |-> KeyOf(store, e), entity |-> e, path |-> path, text |-> Serialize(store, e), step |-> "open", old |-> StoreGet(disk, store, KeyOf(store, e))])
    /\ UNCHANGED <<disk, storageLog, storageCall>>

\* mkdir is done, and writeFile(tmpPath, text).
OverlapWrite(i) ==
    /\ saving[i].step = "open"
    /\ disk' = WriteFileAt(Mkdir(disk, saving[i].store, saving[i].path[1]), saving[i].store, TmpPath(saving[i].path), saving[i].text)
    /\ saving' = [saving EXCEPT ![i].step = "written"]
    /\ UNCHANGED <<storageLog, storageCall>>

\* rename(tmpPath, filePath): it rejects with ENOENT when the temporary
\* file is not there; save returns or rejects with it.
OverlapRename(i) ==
    LET f == saving[i]
    IN  /\ f.step = "written"
        /\ IF ReadFile(disk, f.store, TmpPath(f.path)) = <<>>
           THEN /\ saving' = [saving EXCEPT ![i].step = "thrown"]
                /\ Logged(StorageCall("save", f.store, f.key, f.entity, TRUE, Thrown))
                /\ UNCHANGED disk
           ELSE /\ disk' = Rename(disk, f.store, TmpPath(f.path), RecordPath(f.path))
                /\ saving' = [saving EXCEPT ![i].step = "returned"]
                /\ Logged(StorageCall("save", f.store, f.key, f.entity, TRUE, Returned(<<>>)))

DoOverlapOpen ==
    /\ \E store \in {"tasks", "org"} : \E e \in SaveArgs(store) : OverlapOpen(store, e)
    /\ UNCHANGED calls
    /\ StorageUnchanged

DoOverlapWrite ==
    /\ \E i \in 1..Len(saving) : OverlapWrite(i)
    /\ UNCHANGED calls
    /\ StorageUnchanged

DoOverlapRename ==
    /\ \E i \in 1..Len(saving) : OverlapRename(i)
    /\ UNCHANGED calls
    /\ StorageUnchanged

NextOverlap == DoOverlapOpen \/ DoOverlapWrite \/ DoOverlapRename

SpecOverlap == InitStorage /\ [][NextOverlap]_vars

\* ------------------------------------------ message, board and context tools
\* The tools run to completion: a save is mkdir, writeFile and rename.
Save(d, store, e) ==
    LET path == PathOf(store, KeyOf(store, e))
    IN  Rename(WriteFileAt(Mkdir(d, store, path[1]), store, TmpPath(path), Serialize(store, e)), store, TmpPath(path), RecordPath(path))

\* randomUUID(): an id no message, and no thread, has yet.
Largest(S) == IF S = {} THEN 0 ELSE CHOOSE n \in S : \A o \in S : n >= o
FreshMessageId(d) == Largest({p[2] : p \in DOMAIN d["messages"].files}) + 1
FreshThreadId(d) == Largest(d["messages"].dirs) + 1
FreshBoardId(d) == <<ToString(Cardinality(DOMAIN d["board"].files) + 1)>>

\* The text of an agent name, and new Date().toISOString().
NameText(agentName) == <<ToString(agentName)>>
TimeText(now) == <<ToString(now)>>

\* agents/<name>/context.md, beside config.json.
ContextFile == 1

MessageCreated(messageId) == [type |-> "message_created", id |-> messageId, status |-> "none"]
BoardItemCreated(author) == [type |-> "board_item_created", id |-> author, status |-> "none"]

ToolCall(op, agentName, value) == Call(op, agentName, NULL, "none", NullText, UNDEFINED, UNDEFINED, UNDEFINED, "return", value)
ToolUnchanged == UNCHANGED <<engineVars, orgVars, busVars, flightVars, saving, storageLog, storageCall>>

\* send_message, called by agentName.
SendMessage(agentName, toAgent, threadId) ==
    LET thread == IF threadId = UNDEFINED THEN FreshThreadId(disk) ELSE threadId
        message == [id |-> FreshMessageId(disk), fromAgentId |-> agentName, toAgentId |-> toAgent, threadId |-> thread, status |-> "delivered", createdAt |-> clock, readAt |-> NULL]
    IN  /\ disk' = Save(disk, "messages", message)
        /\ emitted' = <<MessageCreated(message.id)>>
        /\ lastCall' = ToolCall("send_message", agentName, thread)
        /\ ToolUnchanged

\* MessageStorage.markRead
MarkRead(d, messageId, threadId, now) ==
    LET got == StoreGet(d, "messages", <<messageId, threadId>>)
    IN  IF got.value = <<>> THEN d
        ELSE Save(d, "messages", [got.value[1] EXCEPT !.status = "read", !.readAt = now])

\* The loop of read_messages over the messages of the thread.
RECURSIVE MarkThreadRead(_, _, _, _, _)
MarkThreadRead(d, threadMessages, agentName, threadId, now) ==
    IF threadMessages = <<>> THEN d
    ELSE LET msg == Head(threadMessages)
             marked == IF msg.toAgentId = agentName /\ msg.status # "read" THEN MarkRead(d, msg.id, threadId, now) ELSE d
         IN  MarkThreadRead(marked, Tail(threadMessages), agentName, threadId, now)

\* read_messages, called by agentName: with a thread id it marks the
\* messages of the thread addressed to the caller as read; without one it
\* lists the unread messages.
ReadMessages(agentName, threadId, order) ==
    /\ disk' = IF threadId # UNDEFINED THEN MarkThreadRead(disk, ListThread(disk, threadId, order).value, agentName, threadId, clock) ELSE disk
    /\ emitted' = <<>>
    /\ lastCall' = ToolCall("read_messages", agentName, threadId)
    /\ ToolUnchanged

\* update_context, called by agentName.
UpdateContext(agentName, content) ==
    /\ disk' = WriteFileAt(Mkdir(disk, "agents", agentName), "agents", <<agentName, ContextFile, FALSE>>, content)
    /\ emitted' = <<>>
    /\ lastCall' = ToolCall("update_context", agentName, NULL)
    /\ ToolUnchanged

\* post_to_board, called by agentName.
PostToBoard(agentName, type, summary, body) ==
    LET item == [id |-> FreshBoardId(disk), type |-> type, author |-> NameText(agentName), summary |-> summary, body |-> body, createdAt |-> TimeText(clock), path |-> <<>>]
    IN  /\ disk' = Save(disk, "board", item)
        /\ emitted' = <<BoardItemCreated(agentName)>>
        /\ lastCall' = ToolCall("post_to_board", agentName, NULL)
        /\ ToolUnchanged

\* ------------------------------------------------------- tool specification
ContextArgs == {<<"notes">>, <<"plan">>}

ToolCallBegins == calls < MaxToolCalls /\ calls' = calls + 1

DoSendMessage ==
    /\ ToolCallBegins
    /\ \E agentName \in AgentNames, toAgent \in AgentNames, threadId \in ThreadIds \cup {UNDEFINED} : SendMessage(agentName, toAgent, threadId)

DoReadMessages ==
    /\ ToolCallBegins
    /\ \E agentName \in AgentNames, threadId \in ThreadIds \cup {UNDEFINED} : \E order \in ListOrders(disk, "messages") : ReadMessages(agentName, threadId, order)

DoUpdateContext ==
    /\ ToolCallBegins
    /\ \E agentName \in AgentNames, content \in ContextArgs : UpdateContext(agentName, content)

DoPostToBoard ==
    /\ ToolCallBegins
    /\ \E agentName \in AgentNames, type \in {<<"finding">>, <<"blocker">>}, summary \in BoardSummaries, body \in BoardBodies : PostToBoard(agentName, type, summary, body)

NextTools == DoSendMessage \/ DoReadMessages \/ DoUpdateContext \/ DoPostToBoard \/ Tick

SpecTools == InitStorage /\ [][NextTools]_vars

\* ------------------------------------------------------------------ claims
\* The step is a call of `op` (and not the clock moving on).
CallStep(op) == calls' = calls + 1 /\ lastCall'.op = op

\* The artifacts for child task t in the results directory of agent a.
ArtifactsFor(a, t) == {f \in DOMAIN mailbox[a] : mailbox[a][f].taskId = t}

\* The stored task t is a delegated child whose parent task is in the store.
DeliveryDue(tasks, t) ==
    /\ Has(tasks, t)
    /\ tasks[t].parentTaskId # NULL
    /\ tasks[t].delegatorId # NULL
    /\ Has(tasks, tasks[t].parentTaskId)

ParentAssignee(tasks, t) == tasks[tasks[t].parentTaskId].assigneeId

\* C1: a spawnAgent call made while the registry holds at least
\* concurrencyLimit entries fails and leaves the agent store, the task store
\* and the registry as they were.
C1_RejectedSpawnChangesNothing ==
    [][(CallStep("spawnAgent") /\ GetRunningAgentCount >= concurrencyLimit)
        => /\ lastCall'.outcome = "throw"
           /\ agentStore' = agentStore
           /\ taskStore' = taskStore
           /\ runningAgents' = runningAgents]_vars

C1_Witness ==
    /\ lastCall.op = "spawnAgent"
    /\ lastCall.outcome = "throw"
    /\ GetRunningAgentCount >= concurrencyLimit
    /\ DOMAIN taskStore # {}

\* C2: with the limit fixed, getRunningAgentCount() never exceeds it.
C2_RunningCountWithinLimit == GetRunningAgentCount <= concurrencyLimit

C2_Witness ==
    /\ GetRunningAgentCount = concurrencyLimit
    /\ concurrencyLimit > 1
    /\ lastCall.op = "spawnAgent"
    /\ lastCall.outcome = "return"

\* C3 (as claimed): once a stored task is completed, failed or blocked, no
\* call changes its stored status.
C3_TerminalStatusIsFinal ==
    [][\A t \in DOMAIN taskStore :
          taskStore[t].status \in TerminalStatuses
            => taskStore'[t].status = taskStore[t].status]_vars

\* C4 (as claimed): every delegated child task with its parent in the store
\* that reached a terminal status has exactly one result artifact in the
\* parent assignee's mailbox.
C4_ExactlyOnceDelivery ==
    \A t \in DOMAIN taskStore :
        (DeliveryDue(taskStore, t) /\ taskStore[t].status \in TerminalStatuses)
            => Cardinality(ArtifactsFor(ParentAssignee(taskStore, t), t)) = 1

C6_OneNewArtifact ==
    [][(CallStep("completeAgent") /\ DeliveryDue(taskStore, lastCall'.taskId))
        => LET t == lastCall'.taskId
               p == ParentAssignee(taskStore, t)
               added == DOMAIN mailbox'[p] \ DOMAIN mailbox[p]
           IN /\ Cardinality(added) = 1
              /\ \A f \in added : /\ mailbox'[p][f].taskId = t
                                  /\ mailbox'[p][f].status = lastCall'.status
              /\ \A a \in AgentNames \ {p} : mailbox'[a] = mailbox[a]]_vars

\* C7 (as claimed): the result section of a delivered artifact is the child's
\* result text when it is non-empty and the placeholder when the result is
\* null or the empty string.
C7_ResultOrPlaceholder ==
    [][((CallStep("completeAgent") \/ CallStep("finish_task"))
            /\ DeliveryDue(taskStore, lastCall'.taskId))
        => LET t == lastCall'.taskId
               p == ParentAssignee(taskStore, t)
               r == lastCall'.result
           IN mailbox'[p][FileName(clock, t)].result =
                 IF r = NullText \/ r = <<>> THEN Placeholder ELSE r]_vars

\* C8: completeAgent with the task missing still resets a stored agent to
\* idle with no current task; with the agent missing it still moves a stored
\* task to the given status; either way the slot is freed and the call
\* returns normally.
C8_MissingSideTolerated ==
    [][CallStep("completeAgent")
        => LET a == lastCall'.agentName
               t == lastCall'.taskId
           IN /\ (~Has(taskStore, t) /\ Has(agentStore, a))
                    => /\ agentStore'[a].status = "idle"
                       /\ agentStore'[a].currentTaskId = NULL
              /\ (~Has(agentStore, a) /\ Has(taskStore, t))
                    => taskStore'[t].status = lastCall'.status
              /\ (~Has(taskStore, t) \/ ~Has(agentStore, a))
                    => /\ a \notin DOMAIN runningAgents'
                       /\ lastCall'.outcome = "return"]_vars

C8_Witness ==
    /\ lastCall.op = "completeAgent"
    /\ ~Has(taskStore, lastCall.taskId)
    /\ Has(agentStore, lastCall.agentName)
    /\ agentStore[lastCall.agentName].status = "idle"
    /\ \E t \in DOMAIN taskStore : /\ taskStore[t].status = "running"
                                  /\ taskStore[t].assigneeId = lastCall.agentName

\* C9: after a spawnAgent call that succeeded, the stored task is running
\* with startedAt set, the stored agent is running with currentTaskId the
\* task id, the agent is in the registry, and the call returned the task id.
C9_SpawnPostcondition ==
    (lastCall.op = "spawnAgent" /\ lastCall.outcome = "return")
        => LET a == lastCall.agentName
               t == lastCall.taskId
           IN /\ Has(taskStore, t)
              /\ taskStore[t].status = "running"
              /\ taskStore[t].startedAt # NULL
              /\ Has(agentStore, a)
              /\ agentStore[a].status = "running"
              /\ agentStore[a].currentTaskId = t
              /\ IsAgentRunning(a)
              /\ lastCall.value = t

C9_Witness ==
    /\ lastCall.op = "spawnAgent"
    /\ lastCall.outcome = "return"
    /\ Has(taskStore, lastCall.taskId)
    /\ taskStore[lastCall.taskId].parentTaskId # NULL
    /\ runningAgents[lastCall.agentName] = lastCall.taskId

\* C10: after completeAgent returns with both records stored, the task has
\* the given status and result and a completedAt, the agent is idle with no
\* current task and out of the registry, and each of cost, duration and turn
\* count is the supplied argument, or unchanged when none was supplied.
C10_CompletePostcondition ==
    [][(CallStep("completeAgent") /\ Has(taskStore, lastCall'.taskId)
            /\ Has(agentStore, lastCall'.agentName))
        => LET c == lastCall'
               old == taskStore[c.taskId]
               new == taskStore'[c.taskId]
               agent == agentStore'[c.agentName]
           IN /\ c.outcome = "return"
              /\ new.status = c.status
              /\ new.result = c.result
              /\ new.completedAt # NULL
              /\ agent.status = "idle"
              /\ agent.currentTaskId = NULL
              /\ c.agentName \notin DOMAIN runningAgents'
              /\ new.costUsd = (IF c.costUsd = UNDEFINED THEN old.costUsd ELSE c.costUsd)
              /\ new.durationMs =
                    (IF c.durationMs = UNDEFINED THEN old.durationMs ELSE c.durationMs)
              /\ new.numTurns =
                    (IF c.numTurns = UNDEFINED THEN old.numTurns ELSE c.numTurns)]_vars

C10_Witness ==
    /\ lastCall.op = "completeAgent"
    /\ lastCall.costUsd = UNDEFINED
    /\ lastCall.numTurns # UNDEFINED
    /\ Has(taskStore, lastCall.taskId)
    /\ taskStore[lastCall.taskId].costUsd # NULL
    /\ taskStore[lastCall.taskId].durationMs = NULL
    /\ taskStore[lastCall.taskId].startedAt # NULL

\* C11 (as claimed): every stored task has startedAt set exactly when its
\* status is not pending, and completedAt set exactly when its status is
\* completed, failed or blocked.
C11_TimestampsMatchStatus ==
    \A t \in DOMAIN taskStore :
        /\ (taskStore[t].startedAt # NULL) <=> (taskStore[t].status # "pending")
        /\ (taskStore[t].completedAt # NULL) <=> (taskStore[t].status \in TerminalStatuses)

\* C12: every stored agent has a current task exactly when its status is
\* running.
C12_CurrentTaskIffRunning ==
    \A a \in DOMAIN agentStore :
        (agentStore[a].currentTaskId # NULL) <=> (agentStore[a].status = "running")

\* update_agent has rewritten the record of a running agent.
C12_Witness ==
    /\ lastCall.op = "update_agent"
    /\ Has(agentStore, lastCall.agentName)
    /\ agentStore[lastCall.agentName].role = 2
    /\ agentStore[lastCall.agentName].status = "running"
    /\ agentStore[lastCall.agentName].currentTaskId # NULL

\* The events of the given type that carry the given id, in a list of events.
EventsFor(events, type, id) ==
    {i \in DOMAIN events : events[i].type = type /\ events[i].id = id}

RECURSIVE WellParented(_, _)
WellParented(nodes, parentName) ==
    \A i \in 1..Len(nodes) :
        /\ nodes[i].parentAgentName = parentName
        /\ WellParented(nodes[i].children, nodes[i].agentName)

\* The agent names of the nodes of a list and of everything below them.
RECURSIVE NamesIn(_)
NamesIn(nodes) ==
    IF nodes = <<>> THEN <<>>
    ELSE <<Head(nodes).agentName>> \o NamesIn(Head(nodes).children) \o NamesIn(Tail(nodes))

NameSet(tree) == {NamesIn(tree.roots)[i] : i \in 1..Len(NamesIn(tree.roots))}

\* getParent applied k times, starting from agentName.
RECURSIVE ParentAfter(_, _, _)
ParentAfter(tree, agentName, k) ==
    IF k = 0 THEN agentName ELSE GetParent(tree, ParentAfter(tree, agentName, k - 1))

\* C14 (as claimed): the parentAgentName stored in a node is null when the
\* node is a root and is otherwise the name of the node whose children list
\* holds it.
C14_NoDanglingParent == WellParented(orgTree.roots, NULL)

\* C15: every agent name appears in at most one node of the org tree.
C15_NamesAppearOnce ==
    LET names == NamesIn(orgTree.roots)
    IN \A i, j \in 1..Len(names) : i # j => names[i] # names[j]

\* After a removeAgent call the tree holds every agent but the one named in
\* the call, two of them under the same root.
C15_Witness ==
    /\ lastCall.op = "removeAgent"
    /\ Len(NamesIn(orgTree.roots)) = NumOrgAgents - 1
    /\ lastCall.agentName \notin NameSet(orgTree)
    /\ \E i \in 1..Len(orgTree.roots) : Len(orgTree.roots[i].children) >= 2

\* C16 (as claimed): following getParent from an agent one or more times never
\* returns to that agent.
C16_ParentRelationAcyclic ==
    \A a \in OrgNames : \A k \in 1..NumOrgAgents : ParentAfter(orgTree, a, k) # a

\* The step is a setParent call, made on the storage or through the tool,
\* that reached the storage.
SetParentStep ==
    \/ CallStep("setParent")
    \/ CallStep("set_org_parent") /\ emitted' = <<OrgChanged>>

InTree(tree, agentName) == FindNode(tree.roots, agentName) # <<>>

\* C17: after setParent(x, p) with p in the tree, not x and not below x,
\* getParent(x) is p and x is the last child of p, at the position that is
\* the number of children p had once x was detached; after setParent(x, null)
\* x is the last root and getParent(x) is null.
C17_SetParentInsertsLast ==
    [][SetParentStep
        => LET x == lastCall'.agentName
               p == lastCall'.value
           IN /\ (/\ p # NULL
                  /\ p # x
                  /\ InTree(orgTree, p)
                  /\ FindNode(GetChildren(orgTree, x), p) = <<>>)
                    => LET before == FilterOut(GetChildren(orgTree, p), x)
                           after == GetChildren(orgTree', p)
                       IN /\ GetParent(orgTree', x) = p
                          /\ Len(after) = Len(before) + 1
                          /\ after[Len(after)].agentName = x
                          /\ after[Len(after)].position = Len(before)
                          /\ \A i \in 1..Len(before) :
                                after[i].agentName = before[i].agentName
              /\ p = NULL
                    => LET roots == orgTree'.roots
                       IN /\ roots # <<>>
                          /\ roots[Len(roots)].agentName = x
                          /\ GetParent(orgTree', x) = NULL]_vars

\* setParent(A, null) then setParent(B, A) on the empty tree: A is the only
\* root and its children are [B].
C17_Witness ==
    /\ calls = 2
    /\ lastCall.op = "setParent"
    /\ lastCall.value # NULL
    /\ Len(orgTree.roots) = 1
    /\ orgTree.roots[1].agentName = lastCall.value
    /\ GetParent(orgTree, lastCall.agentName) = lastCall.value
    /\ GetChildren(orgTree, lastCall.value) =
          <<[agentName |-> lastCall.agentName, parentAgentName |-> lastCall.value,
             children |-> <<>>, position |-> 0]>>

\* The name of the node whose children list holds agentName, NULL for a
\* root, in a one-element sequence; <<>> when agentName is not in the tree.
RECURSIVE HolderIn(_, _, _)
HolderIn(nodes, holder, agentName) ==
    IF nodes = <<>> THEN <<>>
    ELSE IF Head(nodes).agentName = agentName THEN <<holder>>
    ELSE LET below == HolderIn(Head(nodes).children, Head(nodes).agentName, agentName)
         IN IF below # <<>> THEN below ELSE HolderIn(Tail(nodes), holder, agentName)

Holder(tree, agentName) == HolderIn(tree.roots, NULL, agentName)

\* The names of the children of agentName, or of the roots for NULL, in order.
ChildNames(tree, agentName) ==
    LET nodes == IF agentName = NULL THEN tree.roots ELSE GetChildren(tree, agentName)
    IN [i \in 1..Len(nodes) |-> nodes[i].agentName]

\* The elements of names that are in the set keep, in their order.
Restrict(names, keep) == SelectSeq(names, LAMBDA n : n \in keep)

\* C18 (as claimed): removeAgent(x) on a node with children makes each child
\* of x a child of the node that held x (a root when x was a root), in the
\* former relative order, with that node's name (null when x was a root) as
\* stored parentAgentName.
C18_ChildrenMoveToFormerParent ==
    [][(CallStep("removeAgent") /\ GetChildren(orgTree, lastCall'.agentName) # <<>>)
        => LET x == lastCall'.agentName
               former == Holder(orgTree, x)[1]
               orphans == ChildNames(orgTree, x)
               moved == {orphans[i] : i \in 1..Len(orphans)}
           IN /\ \A c \in moved : /\ Holder(orgTree', c) = <<former>>
                                  /\ GetParent(orgTree', c) = former
              /\ Restrict(ChildNames(orgTree', former), moved) = orphans]_vars

\* The node keeps its place and its children: the node that holds it, its
\* stored parent and the names of its children are as before.
KeepsPlace(n) ==
    /\ Holder(orgTree', n) = Holder(orgTree, n)
    /\ GetParent(orgTree', n) = GetParent(orgTree, n)
    /\ ChildNames(orgTree', n) = ChildNames(orgTree, n)

RECURSIVE RegisteredBy(_, _, _)
RegisteredBy(log, kind, handler) ==
    IF log = <<>> THEN FALSE
    ELSE LET last == log[Len(log)]
         IN IF last.op = "on" /\ last.kind = kind /\ last.handler = handler THEN TRUE
            ELSE IF last.op = "removeAllListeners" THEN FALSE
            ELSE IF last.op = "unsubscribe" /\ last.kind = kind /\ last.handler = handler
            THEN FALSE
            ELSE RegisteredBy(SubSeq(log, 1, Len(log) - 1), kind, handler)

\* C20: emit(kind, payload) calls, once each, exactly the handlers registered
\* for that kind when it is made; with none registered it calls nothing.
C20_EmitCallsRegisteredHandlers ==
    (busLog # <<>> /\ busLog[Len(busLog)].op = "emit")
        => LET kind == busLog[Len(busLog)].kind
               registered == {h \in HandlerIds :
                                RegisteredBy(SubSeq(busLog, 1, Len(busLog) - 1), kind, h)}
           IN /\ {invoked[i].handler : i \in 1..Len(invoked)} = registered
              /\ Len(invoked) = Cardinality(registered)
              /\ \A i \in 1..Len(invoked) : invoked[i].kind = kind

\* An emit that called one handler, after another handler of the same kind
\* was unsubscribed and while a handler of the other kind is registered.
C20_Witness ==
    /\ Len(busLog) = MaxBusCalls
    /\ busLog[Len(busLog)].op = "emit"
    /\ Len(invoked) = 1
    /\ \E i \in 1..Len(busLog) : /\ busLog[i].op = "unsubscribe"
                                /\ busLog[i].kind = busLog[Len(busLog)].kind
                                /\ busLog[i].handler # invoked[1].handler
    /\ \E k \in DOMAIN handlers : k # busLog[Len(busLog)].kind

\* The calls of the log that began the registration the handler has for the
\* kind: an on for it with no unsubscribe of it and no removeAllListeners
\* from that call to the end of the log.
RegisteredAt(log, kind, handler) ==
    {i \in 1..Len(log) :
        /\ log[i].op = "on" /\ log[i].kind = kind /\ log[i].handler = handler
        /\ \A j \in i..Len(log) :
              /\ log[j].op # "removeAllListeners"
              /\ ~(log[j].op = "unsubscribe" /\ log[j].kind = kind
                   /\ log[j].handler = handler)}

\* The call that registered the handler: the first of them.
RegisteredFirstAt(log, kind, handler) ==
    CHOOSE i \in RegisteredAt(log, kind, handler) :
        \A j \in RegisteredAt(log, kind, handler) : i <= j

\* C21: when emit(kind, payload) returns, every handler registered for the
\* kind has been called, in the order in which they were registered, each
\* with the payload given to emit.
C21_EmitInRegistrationOrder ==
    (busLog # <<>> /\ busLog[Len(busLog)].op = "emit")
        => LET call == busLog[Len(busLog)]
               before == SubSeq(busLog, 1, Len(busLog) - 1)
           IN /\ \A h \in HandlerIds :
                    RegisteredAt(before, call.kind, h) # {}
                        => \E i \in 1..Len(invoked) : invoked[i].handler = h
              /\ \A i \in 1..Len(invoked) :
                    /\ invoked[i].payload = call.payload
                    /\ RegisteredAt(before, call.kind, invoked[i].handler) # {}
              /\ \A i, j \in 1..Len(invoked) :
                    i < j => RegisteredFirstAt(before, call.kind, invoked[i].handler)
                                < RegisteredFirstAt(before, call.kind, invoked[j].handler)

\* An emit that called two handlers, the one with the larger name first,
\* after the first of them was registered a second time.
C21_Witness ==
    /\ busLog # <<>>
    /\ busLog[Len(busLog)].op = "emit"
    /\ busLog[Len(busLog)].payload = 2
    /\ Len(invoked) = 2
    /\ invoked[1].handler > invoked[2].handler
    /\ Cardinality({i \in 1..Len(busLog) :
                      busLog[i].op = "on" /\ busLog[i].handler = invoked[1].handler
                      /\ busLog[i].kind = busLog[Len(busLog)].kind}) = 2
    /\ \A i \in 1..Len(busLog) : busLog[i].op \in {"on", "emit"}

\* C22 (as claimed): when a handler throws during emit, the other handlers
\* registered for the event are still called and emit returns normally to
\* the operation that called it.
C22_ThrowingHandlerIsContained ==
    (busLog # <<>> /\ busLog[Len(busLog)].op = "emit")
        => LET call == busLog[Len(busLog)]
               before == SubSeq(busLog, 1, Len(busLog) - 1)
           IN /\ \A h \in AllHandlers :
                    RegisteredAt(before, call.kind, h) # {}
                        => \E i \in 1..Len(invoked) : invoked[i].handler = h
              /\ EmitOutcome(invoked) = "return"


\* ---- entity stores ----
\* The last save, delete or crash.
LastWrite == storageLog[Len(storageLog)]

\* The last call is a get, and the write before it a completed save of the
\* key the get asked for.
SavedThenGot ==
    /\ storageLog # <<>>
    /\ storageCall.op = "get"
    /\ LastWrite.op = "save"
    /\ LastWrite.store = storageCall.store
    /\ LastWrite.key = storageCall.key

\* The fields of a board item the stores' contract names; path is where the
\* file lies, which get fills in.
BoardFields == {"id", "type", "author", "summary", "body", "createdAt"}
SameEntity(store, a, b) == IF store = "board" THEN \A f \in BoardFields : a[f] = b[f] ELSE a = b

\* C23: in each of the five stores, save(e) followed by get with e's key
\* returns a value equal to e.
C23_SaveThenGetRoundTrips ==
    SavedThenGot =>
        /\ storageCall.result.outcome = "return"
        /\ storageCall.result.value # <<>>
        /\ SameEntity(storageCall.store, storageCall.result.value[1], LastWrite.arg)

\* The store holds no record for the key: every completed save of it was
\* followed by a delete of it.  A save that crashed completed nothing.
Absent(store, key) ==
    \A i \in 1..Len(storageLog) :
        (storageLog[i].op = "save" /\ storageLog[i].store = store /\ storageLog[i].key = key) =>
            \E j \in (i + 1)..Len(storageLog) : storageLog[j].op = "delete" /\ storageLog[j].store = store /\ storageLog[j].key = key

\* What get returns when there is nothing to read: null, and the empty tree
\* for the org store, which holds one document and has no keys.
NotFound(store) == IF store = "org" THEN Returned(<<EmptyTree>>) ELSE Returned(<<>>)

\* C24: get of a key that was never saved, or was deleted, returns not-found
\* without raising, and a list whose directory was never created returns the
\* empty sequence.
C24_AbsentReadsAreNotErrors ==
    /\ (storageCall.op = "get" /\ Absent(storageCall.store, storageCall.key)) => storageCall.result = NotFound(storageCall.store)
    /\ (storageCall.op = "list" /\ ~storageCall.container) => storageCall.result = Returned(<<>>)

\* A task was saved, then deleted, and the get of it that followed returned
\* null.
C24_Witness ==
    /\ storageCall.op = "get"
    /\ storageCall.store = "tasks"
    /\ Absent("tasks", storageCall.key)
    /\ \E i \in 1..Len(storageLog) : storageLog[i].op = "save" /\ storageLog[i].store = "tasks" /\ storageLog[i].key = storageCall.key
    /\ storageCall.result = Returned(<<>>)

\* What get returns for e's key once a save of e has completed.
AfterSave(store, e) ==
    LET path == PathOf(store, KeyOf(store, e))
    IN  StoreGet(WriteFileAt(Mkdir(EmptyDisk, store, path[1]), store, RecordPath(path), Serialize(store, e)), store, KeyOf(store, e))

\* C25: at every point of a save, and after a crash at any point of it, get
\* of the key returns what it returned before the save began or what it
\* returns once the save is complete.
C25_GetSeesOldOrNew ==
    /\ saving # <<>> => StoreGet(disk, saving[1].store, saving[1].key) \in {saving[1].old, AfterSave(saving[1].store, saving[1].entity)}
    /\ storageCall.op = "crash" => StoreGet(disk, storageCall.store, storageCall.key) \in {storageCall.result, AfterSave(storageCall.store, storageCall.arg)}

\* A save of a task over an older, different record of the same id crashed
\* after the temporary file was written in full and before the rename.
C25_Witness ==
    /\ storageCall.op = "crash"
    /\ storageCall.store = "tasks"
    /\ storageCall.result.value # <<>>
    /\ storageCall.result # AfterSave("tasks", storageCall.arg)
    /\ ReadFile(disk, "tasks", TmpPath(PathOf("tasks", storageCall.key))) = <<Serialize("tasks", storageCall.arg)>>

TaskListReturned == storageCall.op = "list" /\ storageCall.store = "tasks" /\ storageCall.result.outcome = "return"
ThreadListReturned == storageCall.op = "list" /\ storageCall.store = "messages" /\ storageCall.result.outcome = "return"
Listed == storageCall.result.value

\* C26, as stated: TaskStorage.list is strictly descending by createdAt and
\* MessageStorage.listThread strictly ascending, whatever records are stored.
C26_ListsStrictlyOrdered ==
    /\ TaskListReturned => \A i, j \in 1..Len(Listed) : i < j => Listed[i].createdAt > Listed[j].createdAt
    /\ ThreadListReturned => \A i, j \in 1..Len(Listed) : i < j => Listed[i].createdAt < Listed[j].createdAt

\* C26, amended: TaskStorage.list never puts an older task before a newer
\* one and MessageStorage.listThread never puts a newer message before an
\* older one; records with the same createdAt may follow each other.
C26_ListsOrderedAmended ==
    /\ TaskListReturned => \A i, j \in 1..Len(Listed) : i < j => Listed[i].createdAt >= Listed[j].createdAt
    /\ ThreadListReturned => \A i, j \in 1..Len(Listed) : i < j => Listed[i].createdAt <= Listed[j].createdAt

\* list returned two tasks, the newer first, that the directory listing had
\* reported the other way round.
C26_Witness ==
    /\ TaskListReturned
    /\ Len(Listed) = 2
    /\ Listed[1].createdAt > Listed[2].createdAt
    /\ Len(storageCall.arg) = 2
    /\ storageCall.arg[1][2] = Listed[2].id

\* ---- events on every change ----
\* What the operations persist: the agent and task records, the results
\* mailboxes, the org tree, and the message, board and context files.
Persisted == <<agentStore, taskStore, mailbox, orgTree, disk>>

\* C27: every operation or tool call that changes persisted state emits at
\* least one event during the call.
C27_MutationsEmit == [][Persisted' # Persisted => emitted' # <<>>]_vars

\* ---- delete_agent ----
\* C28: delete_agent for an agent whose stored status is running leaves the
\* agent record and the org tree as they were and emits no agent_deleted;
\* and delete_agent removes a record only when its status is not running.
C28_RunningAgentIsNotDeleted ==
    [][CallStep("delete_agent")
        => LET a == lastCall'.agentName
           IN  /\ (Has(agentStore, a) /\ agentStore[a].status = "running")
                      => /\ agentStore' = agentStore
                         /\ orgTree' = orgTree
                         /\ \A i \in 1..Len(emitted') : emitted'[i].type # "agent_deleted"
               /\ (Has(agentStore, a) /\ ~Has(agentStore', a)) => agentStore[a].status # "running"]_vars

\* delete_agent was called for a running agent that is in the org tree, and
\* the agent is still stored, running and in the tree.
C28_Witness ==
    /\ lastCall.op = "delete_agent"
    /\ Has(agentStore, lastCall.agentName)
    /\ agentStore[lastCall.agentName].status = "running"
    /\ InTree(orgTree, lastCall.agentName)

\* ---- one task per agent ----
\* C29: after any sequence of spawnAgent and completeAgent calls no agent
\* has two running tasks that spawnAgent started for it.  Stated of the
\* spawnAgent call that would start the second: when it returns for an agent
\* whose registry entry names another task, put there by the spawnAgent call
\* that started it and not removed by a completeAgent for the agent, that
\* other task is not running.
C29_OneRunningTaskPerAgent ==
    [][(CallStep("spawnAgent") /\ lastCall'.outcome = "return")
        => LET a == lastCall'.agentName
           IN  ~(/\ Has(runningAgents, a)
                 /\ runningAgents[a] # lastCall'.taskId
                 /\ Has(taskStore', runningAgents[a])
                 /\ taskStore'[runningAgents[a]].status = "running"
                 /\ taskStore'[lastCall'.taskId].status = "running")]_vars

\* ---- the review status ----
\* C30: no sequence of createTask, delegate_task, spawnAgent, completeAgent
\* and finish_task calls leaves a stored task in status review.
C30_NoTaskInReview == \A id \in DOMAIN taskStore : taskStore[id].status # "review"

\* A task was spawned and has reached a terminal status, and another task
\* is pending.
C30_Witness ==
    \E done, other \in DOMAIN taskStore :
        /\ taskStore[done].status \in TerminalStatuses
        /\ taskStore[done].startedAt # NULL
        /\ taskStore[other].status = "pending"

\* ---- overlapping calls ----
\* C31: when spawnAgent calls overlap, each suspended at its awaits while
\* another proceeds, the running-agent registry never has more entries than
\* the concurrency limit.
C31_OverlappingSpawnsKeepLimit == Cardinality(DOMAIN runningAgents) <= concurrencyLimit

\* The call c ends in this step.
Settles(c) == c \in DOMAIN inflight /\ c \notin DOMAIN inflight'

\* A step of a suspended call of operation op.
FlightStep(op) == inflight' # inflight /\ lastCall'.op = op

\* The record stored under key, if any.
Stored(store, key) == IF Has(store, key) THEN <<store[key]>> ELSE <<>>

\* The delegation artifact of the completeAgent call whose step this is has
\* been written, when one is due.
ArtifactWritten ==
    LET t == lastCall'.taskId
    IN  (/\ Has(taskStore', t)
         /\ ShouldDeliver(taskStore'[t])
         /\ Has(taskStore', taskStore'[t].parentTaskId))
        => \E fileName \in DOMAIN mailbox'[taskStore'[taskStore'[t].parentTaskId].assigneeId] : fileName[2] = t

\* C33: completeAgent emits no status event before the final task record
\* and the final agent record are persisted and the delegation artifact is
\* written: at every step of a completeAgent call that emits an event, the
\* stored task has the final status, the stored agent is idle without a
\* task, and the artifact is in the parent assignee's results directory.
C33_EventsFollowPersistence ==
    [][(FlightStep("completeAgent") /\ emitted' # <<>>)
        => LET a == lastCall'.agentName
               t == lastCall'.taskId
           IN  /\ Has(taskStore', t) => taskStore'[t].status = lastCall'.status
               /\ Has(agentStore', a) => agentStore'[a] = IdleAgent(agentStore'[a])
               /\ ArtifactWritten]_vars

\* C36: when a spawnAgent call that passed the concurrency gate fails, the
\* stored agent record, the stored task record and the registry entry of the
\* agent are as they were when the call began.
C36_FailedSpawnChangesNothing ==
    [][\A c \in DOMAIN inflight :
        (Settles(c) /\ inflight[c].op = "spawnAgent" /\ lastCall'.outcome = "throw")
        => LET f == inflight[c]
           IN  /\ Stored(agentStore', f.agentName) = Stored(f.before.agents, f.agentName)
               /\ Stored(taskStore', f.taskId) = Stored(f.before.tasks, f.taskId)
               /\ Stored(runningAgents', f.agentName) = Stored(f.before.registry, f.agentName)]_vars

\* C38: a completeAgent call removes the agent from the registry on every
\* path: when the call ends, by returning or by failing, the agent has no
\* registry entry.
C38_CompleteAgentFreesSlot ==
    [][\A c \in DOMAIN inflight :
        (Settles(c) /\ inflight[c].op = "completeAgent")
        => ~Has(runningAgents', inflight[c].agentName)]_vars

\* ---- overlapping saves ----
\* Two saves of one record were issued, the second possibly before the
\* first ended, and both have ended.
Overlapped ==
    /\ Len(saving) = 2
    /\ saving[1].store = saving[2].store
    /\ saving[1].path = saving[2].path
    /\ \A i \in 1..2 : saving[i].step \in {"returned", "thrown"}
    /\ Len(storageLog) = 2

\* C32: when two save calls for the same record overlap, both complete
\* without error and the record afterwards holds the content of the save
\* that was issued last.
C32_OverlappingSavesOrdered ==
    Overlapped =>
        /\ saving[1].step = "returned"
        /\ saving[2].step = "returned"
        /\ ReadFile(disk, saving[2].store, RecordPath(saving[2].path)) = <<saving[2].text>>

\* ---- artifact file names ----
\* C34: a delivery never overwrites an earlier delivery to the same
\* mailbox: every handleChildCompletion call, made by completeAgent or
\* finish_task for a delegated child whose parent is stored, leaves the files
\* already in the parent assignee's results directory as they were and adds
\* one file to them, also when the same child was delivered before in the
\* same millisecond.
C34_DeliveryNeverOverwrites ==
    [][((CallStep("completeAgent") \/ CallStep("finish_task"))
            /\ DeliveryDue(taskStore, lastCall'.taskId))
        => LET p == ParentAssignee(taskStore, lastCall'.taskId)
           IN  /\ \A f \in DOMAIN mailbox[p] : f \in DOMAIN mailbox'[p] /\ mailbox'[p][f] = mailbox[p][f]
               /\ Cardinality(DOMAIN mailbox'[p]) = Cardinality(DOMAIN mailbox[p]) + 1]_vars

\* ---- setParent and the subtree ----
\* The names below agentName in the tree.
Below(tree, agentName) ==
    LET found == FindNode(tree.roots, agentName)
        names == IF found = <<>> THEN <<>> ELSE NamesIn(found[1].children)
    IN  {names[i] : i \in 1..Len(names)}

\* C35: setParent(x, p) changes the membership of the tree only by adding
\* x when it was absent: the names in the tree afterwards are the names
\* before and x, and every name that was below x is still below x.
C35_SetParentKeepsMembers ==
    [][CallStep("setParent")
        => LET x == lastCall'.agentName
           IN  /\ NameSet(orgTree') = NameSet(orgTree) \cup {x}
               /\ Below(orgTree, x) \subseteq Below(orgTree', x)]_vars

\* ---- completing another task ----
\* C37: completeAgent(a, t) resets a and frees its slot only when t is the
\* task a is running: when the registry entry of a names a different task,
\* the stored record of a and its registry entry are left unchanged.
C37_OtherTaskLeavesAgent ==
    [][(/\ CallStep("completeAgent")
        /\ Has(runningAgents, lastCall'.agentName)
        /\ runningAgents[lastCall'.agentName] # lastCall'.taskId)
        => LET a == lastCall'.agentName
           IN  /\ Stored(agentStore', a) = Stored(agentStore, a)
               /\ Stored(runningAgents', a) = Stored(runningAgents, a)]_vars

\* ---- unsubscribe tokens ----
\* The last call on the bus is a call of the token of registration i, and
\* that token had been called before.
SecondCallOf(i) ==
    /\ busLog' # busLog
    /\ busLog'[Len(busLog')].op = "unsubscribe"
    /\ busLog'[Len(busLog')].payload = i
    /\ \E j \in 1..Len(busLog) : busLog[j].op = "unsubscribe" /\ busLog[j].payload = i

\* C39: an unsubscribe token removes only the registration that created
\* it: when a token is called a second time while its handler is registered
\* for its event (by an on made after the token's first call), the handler
\* stays registered.
C39_TokenRemovesOwnRegistration ==
    [][\A i \in 1..Len(busLog) :
        (/\ SecondCallOf(i)
         /\ Has(handlers, busLog[i].kind)
         /\ \E n \in 1..Len(handlers[busLog[i].kind]) : handlers[busLog[i].kind][n] = busLog[i].handler)
        => /\ Has(handlers', busLog[i].kind)
           /\ \E n \in 1..Len(handlers'[busLog[i].kind]) : handlers'[busLog[i].kind][n] = busLog[i].handler]_vars

\* ---- registry and stored status ----
\* C40: from an empty store and registry, after any sequence of
\* create_agent, update_agent, delete_agent, spawnAgent and completeAgent
\* calls, an agent name is in the running-agent registry if and only if the
\* agent's stored record has status running.
C40_RegistryIffRunning ==
    \A a \in AgentNames :
        Has(runningAgents, a) <=> (Has(agentStore, a) /\ agentStore[a].status = "running")

\* A completeAgent call has just set one agent idle and taken it out of the
\* registry while another agent is running and registered.
C40_Witness ==
    /\ lastCall.op = "completeAgent"
    /\ \E a, b \in AgentNames :
        /\ Has(runningAgents, a) /\ Has(agentStore, a) /\ agentStore[a].status = "running"
        /\ ~Has(runningAgents, b) /\ Has(agentStore, b) /\ agentStore[b].status = "idle"
        /\ lastCall.agentName = b
        /\ Has(taskStore, lastCall.taskId)
        /\ taskStore[lastCall.taskId].assigneeId = b
        /\ taskStore[lastCall.taskId].startedAt # NULL

====
